---- MODULE Spec2Model ----
(***************************************************************************)
(* A model of the streaming annotation pipeline of syntaxdot-rest:         *)
(*   lines -> Sentences -> UnicodeCleanup -> TryChunks -> Annotations      *)
(*         -> Metadata -> consumer                                         *)
(* Every stage is a pull-driven Stream; one poll of the outermost stage    *)
(* runs the nested poll_next calls up to the first Pending or Ready.       *)
(* Spawned tasks (segmentation, annotation, stamping) and the rayon runs   *)
(* inside an annotation task advance in actions of their own.              *)
(***************************************************************************)
EXTENDS Integers, Sequences, FiniteSets, TLC

VARIABLES
    threads,      \* size of the global rayon pool (main.rs, --annotation-threads)
    cfg,          \* per instance: batch_size, read_ahead, max_len, stack
    iter,         \* per instance: items left in a stream::iter upstream
    lines,        \* per instance: the line stream of the request body
    sentences,    \* per instance: Sentences { state, task, queue }
    chunks,       \* per instance: TryChunks { buf }
    annotations,  \* per instance: Annotations { state, task }
    metadata,     \* per instance: Metadata { state, task }
    out,          \* per instance: what the stream has handed to its consumer, in order
    reader,       \* per instance: SentenceStreamReader { first_output, parse_buf }
    hist          \* per instance: history of lines read and tagger invocations

vars == <<threads, cfg, iter, lines, sentences, chunks, annotations, metadata, out, reader, hist>>

-----------------------------------------------------------------------------
(* Bounds of the model *)

MaxLines == 3        \* lines (and read errors) delivered by one request body
MaxPerLine == 2      \* sentences the segmenter makes of one line
MaxPieces == 2       \* piece count of one sentence
MaxCap == 3          \* capacity of a stand-alone TryChunks
MaxItems == 6        \* items of a stand-alone stream::iter upstream
MaxRaw == 2          \* characters of one line given to the WhitespaceTokenizer
MaxForm == 2         \* characters of one form given to the UnicodeCleanup
MaxBuf == 2          \* length of the destination buffer of one poll_read
MultiLines == 1      \* lines (and read errors) of one of several concurrent requests
MaxText == 4         \* characters of a text given to WhitespaceTokenizer::tokenize

-----------------------------------------------------------------------------
(* Poll results: Poll<Option<Result<T, Error>>>, plus a panic *)

Pending == [tag |-> "Pending"]
None == [tag |-> "None"]
Err(kind) == [tag |-> "Err", kind |-> kind]
Ok(val) == [tag |-> "Ok", val |-> val]
Panic == [tag |-> "Panic"]

Ret(st, res) == [st |-> st, res |-> res]

NoTask == [status |-> "none"]

-----------------------------------------------------------------------------
(* Sequence helpers *)

Range(s) == {s[k] : k \in DOMAIN s}

RECURSIVE SeqsUpTo(_, _)
SeqsUpTo(S, n) ==
    IF n = 0 THEN {<< >>}
    ELSE LET shorter == SeqsUpTo(S, n - 1)
         IN  shorter \cup {Append(s, x) : s \in {t \in shorter : Len(t) = n - 1}, x \in S}

RECURSIVE Flatten(_)
Flatten(ss) == IF ss = << >> THEN << >> ELSE Head(ss) \o Flatten(Tail(ss))

Ceil(a, b) == (a + b - 1) \div b

Min(a, b) == IF a <= b THEN a ELSE b

-----------------------------------------------------------------------------
(* Text *)

\* Characters are named by strings: "a", "b" letters, " " the space, "LF" and
\* "CR" the line feed and the carriage return, "NBSP" the no-break space
\* (White_Space, not ASCII).
AsciiWhitespace == {" ", "TAB", "LF", "FF", "CR"}

\* char::is_whitespace
Whitespace == AsciiWhitespace \cup {"VT", "NBSP"}

RECURSIVE TrimStart(_)
TrimStart(s) ==
    IF s # << >> /\ Head(s) \in Whitespace THEN TrimStart(Tail(s)) ELSE s

RECURSIVE TrimEnd(_)
TrimEnd(s) ==
    IF s # << >> /\ s[Len(s)] \in Whitespace THEN TrimEnd(SubSeq(s, 1, Len(s) - 1)) ELSE s

\* str::trim
Trim(s) == TrimEnd(TrimStart(s))

\* position of the first line feed of s, 0 if it has none
FirstLf(s) ==
    IF \E p \in DOMAIN s : s[p] = "LF"
    THEN CHOOSE p \in DOMAIN s : s[p] = "LF" /\ \A q \in 1..(p - 1) : s[q] # "LF"
    ELSE 0

StripCr(s) == IF s # << >> /\ s[Len(s)] = "CR" THEN SubSeq(s, 1, Len(s) - 1) ELSE s

\* str::lines: split at "\n", a "\r" before the "\n" is dropped with it; the
\* last line need not be ended
RECURSIVE StrLines(_)
StrLines(s) ==
    IF s = << >> THEN << >>
    ELSE IF FirstLf(s) = 0 THEN <<s>>
    ELSE <<StripCr(SubSeq(s, 1, FirstLf(s) - 1))>> \o StrLines(SubSeq(s, FirstLf(s) + 1, Len(s)))

\* the first run of non-whitespace characters of s, s not starting with whitespace
RECURSIVE FirstRun(_)
FirstRun(s) ==
    IF s = << >> \/ Head(s) \in AsciiWhitespace THEN << >>
    ELSE <<Head(s)>> \o FirstRun(Tail(s))

\* str::split_ascii_whitespace
RECURSIVE SplitAsciiWhitespace(_)
SplitAsciiWhitespace(s) ==
    IF s = << >> THEN << >>
    ELSE IF Head(s) \in AsciiWhitespace THEN SplitAsciiWhitespace(Tail(s))
    ELSE <<FirstRun(s)>> \o SplitAsciiWhitespace(SubSeq(s, Len(FirstRun(s)) + 1, Len(s)))

WhitespaceTokenizerOneGroup(text) ==
    [some |-> TRUE, tokens |-> <<SplitAsciiWhitespace(text)>>]

\* WhitespaceTokenizer::tokenize
WhitespaceTokenizer(text) ==
    [some |-> TRUE,
     tokens |-> [k \in DOMAIN StrLines(text) |-> SplitAsciiWhitespace(StrLines(text)[k])]]

-----------------------------------------------------------------------------
(* Data *)

\* Token::new(form): a form and an empty misc map
Token(form) == [form |-> form, misc |-> {}]

\* A Sentence made by the segmenter of a group of forms.  npieces is the
\* number of pieces the tagger's tokenizer makes of it, here one per token.
NewSentence(id, group) ==
    [id |-> id, npieces |-> Len(group), tokens |-> [k \in DOMAIN group |-> Token(group[k])],
     tagged |-> FALSE, comments |-> << >>]

\* Lines of a request body.  kind says what the configured segmenter makes of
\* the line: "text" a line an opaque segmenter splits into sentences of lens[k]
\* tokens, "bad" a line it rejects, "raw" a line for the WhitespaceTokenizer.
BlankLine == [kind |-> "blank", text |-> <<" ">>]
BadLine == [kind |-> "bad", text |-> <<"a">>]
TextLine(lens) == [kind |-> "text", text |-> <<"a">>, lens |-> lens]
RawLine(text) == [kind |-> "raw", text |-> text]

TextLines == {TextLine(l) : l \in SeqsUpTo(1..MaxPieces, MaxPerLine)}

\* What the line stream can deliver to one poll: a run of blank lines, then
\* at most one of a line, a read error, the end of the body.
LastEvents == TextLines \cup {BadLine, [kind |-> "ioerr"], [kind |-> "eof"]}

FeedsOf(budget, blanks, lasts) ==
    {f \in SeqsUpTo(blanks, budget) \cup
           {Append(b, e) : b \in SeqsUpTo(blanks, budget), e \in lasts} :
        Len(SelectSeq(f, LAMBDA e : e.kind # "eof")) <= budget}

Feeds(nread) == FeedsOf(MaxLines - nread, {BlankLine}, LastEvents)

\* Bodies for the WhitespaceTokenizer: lines of up to MaxRaw characters
RawChars == {"a", " ", "NBSP"}

RawLines == {RawLine(t) : t \in SeqsUpTo(RawChars, MaxRaw)}

AllWhitespace(text) == \A p \in DOMAIN text : text[p] \in Whitespace

RawFeeds(nread) ==
    FeedsOf(MaxLines - nread, {l \in RawLines : AllWhitespace(l.text)},
            RawLines \cup {[kind |-> "ioerr"], [kind |-> "eof"]})

-----------------------------------------------------------------------------
(* The line stream: body.into_reader().lines() *)

LinesPoll(S) ==
    IF S.feed = << >>
    THEN Ret(S, IF S.lines.eof THEN None ELSE Pending)
    ELSE LET ev == Head(S.feed)
             S1 == [S EXCEPT !.feed = Tail(S.feed)]
         IN  CASE ev.kind = "eof" -> Ret([S1 EXCEPT !.lines.eof = TRUE], None)
               [] ev.kind = "ioerr" -> Ret([S1 EXCEPT !.lines.nread = @ + 1], Err("io"))
               [] OTHER -> Ret([S1 EXCEPT !.lines.nread = @ + 1], Ok(ev))

\* stream::iter over Result items, as in the tests of TryChunks
IterPoll(S) ==
    IF S.iter = << >>
    THEN Ret(S, None)
    ELSE Ret([S EXCEPT !.iter = Tail(S.iter)], Head(S.iter))

-----------------------------------------------------------------------------
(* Sentences: the segmenter stage *)

IsBlankEmptyOnly(line) == line.text = << >>

\* line.trim().is_empty()
IsBlank(line) == Trim(line.text) = << >>

\* tokenizer.tokenize(&line): None for a line the segmenter rejects
Tokenize(line) ==
    CASE line.kind = "bad" -> [some |-> FALSE, tokens |-> << >>]
      [] line.kind = "raw" -> WhitespaceTokenizer(line.text)
      [] OTHER -> [some |-> TRUE,
                   tokens |-> [k \in DOMAIN line.lens |-> [j \in 1..line.lens[k] |-> <<"a">>]]]

\* tokens.into_iter().map(|s| s.into_iter().map(Token::new).collect::<Sentence>())
MakeSentences(tokens, made) ==
    [k \in 1..Len(tokens) |-> NewSentence(made + k, tokens[k])]

RECURSIVE SentencesPoll(_)

\* the arms of match ready!(lines.as_mut().poll_next(cx)), r the line stream's answer
SentencesOnLine(r) ==
    IF r.res.tag # "Ok" THEN r
    ELSE IF IsBlank(r.res.val) THEN SentencesPoll(r.st)
    ELSE SentencesPoll([r.st EXCEPT
             !.sentences.task = [status |-> "running", line |-> r.res.val],
             !.sentences.state = "Tokenize",
             !.path = Append(@, "Tokenize")])

SentencesPollSkipRejected(S) ==
    CASE S.sentences.state = "Lines" -> SentencesOnLine(LinesPoll(S))
      [] S.sentences.state = "Tokenize" ->
            LET t == S.sentences.task
            IN  CASE t.status = "running" -> Ret(S, Pending)
                  [] t.status = "done" ->
                        SentencesPoll([S EXCEPT
                            !.sentences.queue = MakeSentences(t.result.tokens, S.sentences.made),
                            !.sentences.made = @ + Len(t.result.tokens),
                            !.sentences.task = NoTask,
                            !.sentences.state = "Sentences",
                            !.path = Append(@, "Sentences")])
                  [] OTHER -> Ret(S, Panic)
      [] OTHER ->
            IF S.sentences.queue = << >>
            THEN SentencesPoll([S EXCEPT !.sentences.state = "Lines",
                                         !.path = Append(@, "Lines")])
            ELSE Ret([S EXCEPT !.sentences.queue = Tail(@)], Ok(Head(S.sentences.queue)))

SentencesPollResetOnError(S) ==
    CASE S.sentences.state = "Lines" -> SentencesOnLine(LinesPoll(S))
      [] S.sentences.state = "Tokenize" ->
            LET t == S.sentences.task
            IN  CASE t.status = "running" -> Ret(S, Pending)
                  [] t.status = "done" /\ ~t.result.some ->
                        Ret([S EXCEPT !.sentences.task = NoTask,
                                      !.sentences.state = "Lines",
                                      !.path = Append(@, "Lines")],
                            Err("tokenize"))
                  [] t.status = "done" /\ t.result.some ->
                        SentencesPoll([S EXCEPT
                            !.sentences.queue = MakeSentences(t.result.tokens, S.sentences.made),
                            !.sentences.made = @ + Len(t.result.tokens),
                            !.sentences.task = NoTask,
                            !.sentences.state = "Sentences",
                            !.path = Append(@, "Sentences")])
                  [] OTHER -> Ret(S, Panic)
      [] OTHER ->
            IF S.sentences.queue = << >>
            THEN SentencesPoll([S EXCEPT !.sentences.state = "Lines",
                                         !.path = Append(@, "Lines")])
            ELSE Ret([S EXCEPT !.sentences.queue = Tail(@)], Ok(Head(S.sentences.queue)))

SentencesPollStallOnEmpty(S) ==
    CASE S.sentences.state = "Lines" -> SentencesOnLine(LinesPoll(S))
      [] S.sentences.state = "Tokenize" ->
            LET t == S.sentences.task
            IN  CASE t.status = "running" -> Ret(S, Pending)
                  [] t.status = "done" /\ ~t.result.some ->
                        Ret([S EXCEPT !.sentences.task = [status |-> "taken"]],
                            Err("tokenize"))
                  [] t.status = "done" /\ t.result.some ->
                        SentencesPoll([S EXCEPT
                            !.sentences.queue = MakeSentences(t.result.tokens, S.sentences.made),
                            !.sentences.made = @ + Len(t.result.tokens),
                            !.sentences.task = NoTask,
                            !.sentences.state = "Sentences",
                            !.path = Append(@, "Sentences")])
                  [] OTHER -> Ret(S, Panic)
      [] OTHER ->
            IF S.sentences.queue = << >>
            THEN Ret(S, Pending)
            ELSE Ret([S EXCEPT !.sentences.queue = Tail(@)], Ok(Head(S.sentences.queue)))

SentencesPollLinesFirst(S) ==
    CASE S.sentences.state = "Lines" -> SentencesOnLine(LinesPoll(S))
      [] S.sentences.state = "Tokenize" ->
            LET t == S.sentences.task
            IN  CASE t.status = "running" -> Ret(S, Pending)
                  [] t.status = "done" /\ ~t.result.some ->
                        Ret([S EXCEPT !.sentences.task = [status |-> "taken"]],
                            Err("tokenize"))
                  [] t.status = "done" /\ t.result.some ->
                        SentencesPoll([S EXCEPT
                            !.sentences.queue = MakeSentences(t.result.tokens, S.sentences.made),
                            !.sentences.made = @ + Len(t.result.tokens),
                            !.sentences.task = NoTask,
                            !.sentences.state = "Sentences",
                            !.path = Append(@, "Sentences")])
                  [] OTHER -> Ret(S, Panic)
      [] OTHER ->
            IF S.sentences.queue = << >> \/ S.feed # << >>
            THEN SentencesPoll([S EXCEPT !.sentences.state = "Lines",
                                         !.path = Append(@, "Lines")])
            ELSE Ret([S EXCEPT !.sentences.queue = Tail(@)], Ok(Head(S.sentences.queue)))

SentencesPoll(S) ==
    CASE S.sentences.state = "Lines" -> SentencesOnLine(LinesPoll(S))
      [] S.sentences.state = "Tokenize" ->
            LET t == S.sentences.task
            IN  CASE t.status = "running" -> Ret(S, Pending)
                  [] t.status = "done" /\ ~t.result.some ->
                        Ret([S EXCEPT !.sentences.task = [status |-> "taken"]],
                            Err("tokenize"))
                  [] t.status = "done" /\ t.result.some ->
                        SentencesPoll([S EXCEPT
                            !.sentences.queue = MakeSentences(t.result.tokens, S.sentences.made),
                            !.sentences.made = @ + Len(t.result.tokens),
                            !.sentences.task = NoTask,
                            !.sentences.state = "Sentences",
                            !.path = Append(@, "Sentences")])
                  [] OTHER -> Ret(S, Panic)
      [] OTHER ->
            IF S.sentences.queue = << >>
            THEN SentencesPoll([S EXCEPT !.sentences.state = "Lines",
                                         !.path = Append(@, "Lines")])
            ELSE Ret([S EXCEPT !.sentences.queue = Tail(@)], Ok(Head(S.sentences.queue)))

-----------------------------------------------------------------------------
(* UnicodeCleanup *)

\* Characters of forms: "e" and the combining "acute" compose to "eacute";
\* "laquo" is a quotation mark simplified to "quot"; "fi" is a ligature with
\* the compatibility decomposition "f" "i".
Simplified(c) == IF c = "laquo" THEN "quot" ELSE c

Compat(c) == IF c = "fi" THEN <<"f", "i">> ELSE <<c>>

\* canonical composition
RECURSIVE Compose(_)
Compose(s) ==
    IF Len(s) < 2 THEN s
    ELSE IF s[1] = "e" /\ s[2] = "acute" THEN <<"eacute">> \o Compose(SubSeq(s, 3, Len(s)))
    ELSE <<s[1]>> \o Compose(Tail(s))

Normalizations == {"Nfc", "Nfkc"}

\* simplify_unicode(form, normalization)
simplify_unicode(form, normalization) ==
    LET simple == [k \in DOMAIN form |-> Simplified(form[k])]
    IN  IF normalization = "Nfkc"
        THEN Compose(Flatten([k \in DOMAIN simple |-> Compat(simple[k])]))
        ELSE Compose(simple)

\* BTreeMap::insert on a map kept as a set of <<key, value>>
Insert(map, key, val) == {e \in map : e[1] # key} \cup {<<key, val>>}

CleanupTokenNoStash(token, normalization) ==
    [token EXCEPT !.form = simplify_unicode(token.form, normalization)]

CleanupTokenAlways(token, normalization) ==
    [form |-> simplify_unicode(token.form, normalization),
     misc |-> Insert(token.misc, "orth", token.form)]

\* the body of the loop of cleanup_sentence_unicode
CleanupToken(token, normalization) ==
    LET clean_form == simplify_unicode(token.form, normalization)
    IN  IF token.form # clean_form
        THEN [form |-> clean_form, misc |-> Insert(token.misc, "orth", token.form)]
        ELSE token

cleanup_sentence_unicode(sentence, normalization) ==
    [sentence EXCEPT !.tokens = [k \in DOMAIN @ |-> CleanupToken(@[k], normalization)]]

\* the normalization given to unicode_cleanup
NormalizationOf(c) == IF c.stack \in {"cleanup", "cleanup2"} THEN c.normalization ELSE "Nfc"

\* the arms of match ready!(sentences.as_mut().poll_next(cx))
CleanupOnSentence(r) ==
    IF r.res.tag = "Ok"
    THEN Ret(r.st, Ok(cleanup_sentence_unicode(r.res.val, NormalizationOf(r.st.cfg))))
    ELSE r

\* the upstream of UnicodeCleanup: the segmenter, or in a stand-alone stage a
\* stream::iter, or that stream already cleaned once
CleanupInnerPoll(S) ==
    CASE S.cfg.stack = "cleanup" -> IterPoll(S)
      [] S.cfg.stack = "cleanup2" -> CleanupOnSentence(IterPoll(S))
      [] OTHER -> SentencesPoll(S)

UnicodeCleanupPoll(S) == CleanupOnSentence(CleanupInnerPoll(S))

-----------------------------------------------------------------------------
(* TryChunks: the chunk accumulator *)

TokensChunkLen == 16

\* the chunk_len given to try_chunks
ChunkLen(c) ==
    CASE c.stack = "chunks" -> c.chunk_len
      [] c.stack = "tokens" -> TokensChunkLen
      [] OTHER -> c.batch_size * c.read_ahead

\* the upstream St of TryChunks<St, I>
InnerPoll(S) == IF S.cfg.stack = "chunks" THEN IterPoll(S) ELSE UnicodeCleanupPoll(S)

BufFullLate(buf, chunk_len) == Len(buf) = chunk_len + 1

\* buf.len() == *chunk_len
BufFull(buf, chunk_len) == Len(buf) = chunk_len

RECURSIVE TryChunksPoll(_)

TryChunksOnItemNoSwap(r) ==
    CASE r.res.tag = "Ok" ->
            LET buf == Append(r.st.chunks.buf, r.res.val)
                peak == IF Len(buf) > r.st.peak THEN Len(buf) ELSE r.st.peak
            IN  IF BufFull(buf, ChunkLen(r.st.cfg))
                THEN Ret([r.st EXCEPT !.chunks.buf = buf, !.peak = peak], Ok(buf))
                ELSE TryChunksPoll([r.st EXCEPT !.chunks.buf = buf, !.peak = peak])
      [] r.res.tag = "None" ->
            IF r.st.chunks.buf # << >>
            THEN Ret([r.st EXCEPT !.chunks.buf = << >>], Ok(r.st.chunks.buf))
            ELSE r
      [] OTHER -> r

TryChunksOnItemFlushOnErr(r) ==
    CASE r.res.tag = "Ok" ->
            LET buf == Append(r.st.chunks.buf, r.res.val)
                peak == IF Len(buf) > r.st.peak THEN Len(buf) ELSE r.st.peak
            IN  IF BufFull(buf, ChunkLen(r.st.cfg))
                THEN Ret([r.st EXCEPT !.chunks.buf = << >>, !.peak = peak], Ok(buf))
                ELSE TryChunksPoll([r.st EXCEPT !.chunks.buf = buf, !.peak = peak])
      [] r.res.tag \in {"None", "Err"} ->
            IF r.st.chunks.buf # << >>
            THEN Ret([r.st EXCEPT !.chunks.buf = << >>], Ok(r.st.chunks.buf))
            ELSE r
      [] OTHER -> r

\* the arms of match ready!(inner.as_mut().poll_next(cx)), r the upstream's answer
TryChunksOnItem(r) ==
    CASE r.res.tag = "Ok" ->
            LET buf == Append(r.st.chunks.buf, r.res.val)
                peak == IF Len(buf) > r.st.peak THEN Len(buf) ELSE r.st.peak
            IN  IF BufFull(buf, ChunkLen(r.st.cfg))
                THEN Ret([r.st EXCEPT !.chunks.buf = << >>, !.peak = peak], Ok(buf))
                ELSE TryChunksPoll([r.st EXCEPT !.chunks.buf = buf, !.peak = peak])
      [] r.res.tag = "None" ->
            IF r.st.chunks.buf # << >>
            THEN Ret([r.st EXCEPT !.chunks.buf = << >>], Ok(r.st.chunks.buf))
            ELSE r
      [] OTHER -> r

TryChunksPoll(S) == TryChunksOnItem(InnerPoll(S))

-----------------------------------------------------------------------------
(* Annotator::annotate_sentences *)

NoMax == [some |-> FALSE]
SomeMax(k) == [some |-> TRUE, val |-> k]

\* self.tokenizer.tokenize(s.clone()): a SentenceWithPieces
WithPieces(sentence) == [sentence |-> sentence, pieces |-> sentence.npieces]

RetainedBelow(s, max_len) == IF max_len.some THEN s.pieces < max_len.val ELSE TRUE

\* the filter closure: max_len.map(|max_len| s.pieces.len() <= max_len).unwrap_or(true)
Retained(s, max_len) == IF max_len.some THEN s.pieces <= max_len.val ELSE TRUE

\* sentences_with_pieces
SentencesWithPieces(chunk, max_len) ==
    SelectSeq([k \in 1..Len(chunk) |-> WithPieces(chunk[k])],
              LAMBDA s : Retained(s, max_len))

RECURSIVE Perms(_)
Perms(X) ==
    IF X = {} THEN {<< >>}
    ELSE UNION {{<<x>> \o p : p \in Perms(X \ {x})} : x \in X}

\* sort_unstable_by_key(|s| s.pieces.len()): any order of the positions of
\* sentences_with_pieces that is ascending in the piece count
SortedRefs(swp) ==
    {p \in Perms(DOMAIN swp) :
        \A a, b \in DOMAIN p : a < b => swp[p[a]].pieces <= swp[p[b]].pieces}

ParChunksExact(refs, batch_size) ==
    [k \in 1..(Len(refs) \div batch_size) |->
        {refs[j] : j \in ((k - 1) * batch_size + 1)..(k * batch_size)}]

\* par_chunks_mut(batch_size): consecutive runs of the sorted references
ParChunks(refs, batch_size) ==
    [k \in 1..Ceil(Len(refs), batch_size) |->
        {refs[j] : j \in ((k - 1) * batch_size + 1)..Min(k * batch_size, Len(refs))}]

\* the task made by spawn(async move { annotator.annotate_sentences(..) })
SpawnAnnotate(chunk) == [status |-> "spawned", chunk |-> chunk]

\* the flag of rayon's try_for_each: set by the first run that fails
Full(runs) == \E k \in DOMAIN runs : runs[k].st = "failed"

RunsInProgress(runs) == {k \in DOMAIN runs : runs[k].st = "running"}

RunsOnThread(runs) == {k \in DOMAIN runs : runs[k].st \in {"claimed", "running"}}

SortedByPieces(swp) ==
    LET p == CHOOSE q \in SortedRefs(swp) : TRUE IN [k \in DOMAIN swp |-> swp[p[k]]]

AnnotateResultSorted(t) ==
    IF Full(t.runs) THEN [ok |-> FALSE, val |-> << >>]
    ELSE [ok |-> TRUE, val |-> SortedByPieces(t.swp)]

AnnotateResultIgnoringErr(t) == [ok |-> TRUE, val |-> t.swp]

\* try_for_each(..)? followed by Ok(sentences_with_pieces)
AnnotateResult(t) ==
    IF Full(t.runs) THEN [ok |-> FALSE, val |-> << >>]
    ELSE [ok |-> TRUE, val |-> t.swp]

\* tagger.tag_sentences(batch) writes through the references of the batch
TagMembers(swp, members) ==
    [k \in DOMAIN swp |->
        IF k \in members THEN [swp[k] EXCEPT !.sentence.tagged = TRUE] ELSE swp[k]]

-----------------------------------------------------------------------------
(* Annotations: the inference-dispatch stage *)

\* sentences.into_iter().map(|s| s.sentence).collect()
Unwrap(swp) == [k \in DOMAIN swp |-> swp[k].sentence]

RECURSIVE AnnotationsPoll(_)

\* the arms of match ready!(sentences.as_mut().poll_next(cx)), r the accumulator's answer
AnnotationsOnChunk(r) ==
    IF r.res.tag # "Ok" THEN r
    ELSE AnnotationsPoll([r.st EXCEPT
             !.annotations.task = SpawnAnnotate(r.res.val),
             !.annotations.state = "Annotate"])

AnnotationsPollAhead(S) ==
    IF S.annotations.state = "Sentences"
    THEN AnnotationsOnChunk(TryChunksPoll(S))
    ELSE LET t == S.annotations.task
         IN  CASE t.status \in {"spawned", "running"} ->
                     Ret(TryChunksPoll(S).st, Pending)
               [] t.status = "done" /\ ~t.result.ok ->
                     Ret([S EXCEPT !.annotations.task = [status |-> "taken"]],
                         Err("annotate"))
               [] t.status = "done" /\ t.result.ok ->
                     Ret([S EXCEPT !.annotations.task = NoTask,
                                   !.annotations.state = "Sentences"],
                         Ok(Unwrap(t.result.val)))
               [] OTHER -> Ret(S, Panic)

AnnotationsPoll(S) ==
    IF S.annotations.state = "Sentences"
    THEN AnnotationsOnChunk(TryChunksPoll(S))
    ELSE LET t == S.annotations.task
         IN  CASE t.status \in {"spawned", "running"} -> Ret(S, Pending)
               [] t.status = "done" /\ ~t.result.ok ->
                     Ret([S EXCEPT !.annotations.task = [status |-> "taken"]],
                         Err("annotate"))
               [] t.status = "done" /\ t.result.ok ->
                     Ret([S EXCEPT !.annotations.task = NoTask,
                                   !.annotations.state = "Sentences"],
                         Ok(Unwrap(t.result.val)))
               [] OTHER -> Ret(S, Panic)

-----------------------------------------------------------------------------
(* Metadata: the stamping stage *)

PipelineComment(name) == [attr |-> "pipeline", val |-> name]

StampReplace(chunk, name) ==
    [k \in DOMAIN chunk |-> [chunk[k] EXCEPT !.comments = <<PipelineComment(name)>>]]

StampFirstOnly(chunk, name) ==
    [k \in DOMAIN chunk |->
        IF k = 1 THEN [chunk[k] EXCEPT !.comments = Append(@, PipelineComment(name))]
        ELSE chunk[k]]

\* the body of the spawned closure
Stamp(chunk, name) ==
    [k \in DOMAIN chunk |->
        [chunk[k] EXCEPT !.comments = Append(@, PipelineComment(name))]]

RECURSIVE MetadataPoll(_)

\* the stream the stamper is put on: the annotator in a pipeline, any stream
\* of chunks when it stands alone
MetadataUpstream(S) ==
    IF S.cfg.stack = "metadata" THEN IterPoll(S) ELSE AnnotationsPoll(S)

\* the arms of match ready!(sentences.as_mut().poll_next(cx)), r the annotator's answer
MetadataOnChunk(r) ==
    IF r.res.tag # "Ok" THEN r
    ELSE MetadataPoll([r.st EXCEPT
             !.metadata.task = [status |-> "running", chunk |-> r.res.val],
             !.metadata.state = "Annotate"])

MetadataPollInvalidData(S) ==
    IF S.metadata.state = "Sentences"
    THEN MetadataOnChunk(MetadataUpstream(S))
    ELSE LET t == S.metadata.task
         IN  CASE t.status = "running" -> Ret(S, Pending)
               [] t.status = "done" /\ t.result = << >> ->
                     Ret([S EXCEPT !.metadata.task = [status |-> "taken"]],
                         Err("metadata"))
               [] t.status = "done" /\ t.result # << >> ->
                     Ret([S EXCEPT !.metadata.task = NoTask,
                                   !.metadata.state = "Sentences"],
                         Ok(t.result))
               [] OTHER -> Ret(S, Panic)

MetadataPoll(S) ==
    IF S.metadata.state = "Sentences"
    THEN MetadataOnChunk(MetadataUpstream(S))
    ELSE LET t == S.metadata.task
         IN  CASE t.status = "running" -> Ret(S, Pending)
               [] t.status = "done" ->
                     Ret([S EXCEPT !.metadata.task = NoTask,
                                   !.metadata.state = "Sentences"],
                         Ok(t.result))
               [] OTHER -> Ret(S, Panic)

-----------------------------------------------------------------------------
(* Pipeline instances *)

Insts == DOMAIN cfg

\* the state of one instance, with the lines the body can deliver to this poll;
\* path collects the values the poll assigns to the state of the segmenter,
\* peak is the most items the buffer of the accumulator holds during the poll
Bundle(i, feed) ==
    [cfg |-> cfg[i], iter |-> iter[i], feed |-> feed, lines |-> lines[i],
     sentences |-> sentences[i], chunks |-> chunks[i],
     annotations |-> annotations[i], metadata |-> metadata[i], path |-> << >>,
     peak |-> Len(chunks[i].buf)]

StoreSharedBuf(i, st) ==
    /\ iter' = [iter EXCEPT ![i] = st.iter]
    /\ lines' = [lines EXCEPT ![i] = st.lines]
    /\ sentences' = [sentences EXCEPT ![i] = st.sentences]
    /\ chunks' = [j \in Insts |-> st.chunks]
    /\ annotations' = [annotations EXCEPT ![i] = st.annotations]
    /\ metadata' = [metadata EXCEPT ![i] = st.metadata]

Store(i, st) ==
    /\ iter' = [iter EXCEPT ![i] = st.iter]
    /\ lines' = [lines EXCEPT ![i] = st.lines]
    /\ sentences' = [sentences EXCEPT ![i] = st.sentences]
    /\ chunks' = [chunks EXCEPT ![i] = st.chunks]
    /\ annotations' = [annotations EXCEPT ![i] = st.annotations]
    /\ metadata' = [metadata EXCEPT ![i] = st.metadata]

\* Pipeline::annotations, Pipeline::sentences, a stand-alone UnicodeCleanup, or
\* a stream ending in try_chunks
TopPoll(S) ==
    CASE S.cfg.stack \in {"annotate", "metadata"} -> MetadataPoll(S)
      [] S.cfg.stack \in {"cleanup", "cleanup2", "sentences"} -> UnicodeCleanupPoll(S)
      [] OTHER -> TryChunksPoll(S)

\* stacks whose upstream is a stream::iter
IterStacks == {"chunks", "cleanup", "cleanup2", "metadata"}

\* several requests are served at once
Concurrent == Cardinality(Insts) > 1

\* Concurrent requests have distinct bodies: every sentence of request i has i
\* tokens.
OwnFeeds(i, nread) ==
    FeedsOf(MultiLines - nread, {BlankLine},
            {TextLine(l) : l \in SeqsUpTo({i}, MaxPerLine)}
                \cup {BadLine, [kind |-> "ioerr"], [kind |-> "eof"]})

\* Bodies for the segmenter polled alone, which does not look at the pieces:
\* every sentence has one piece.
PlainFeeds(nread) ==
    FeedsOf(MaxLines - nread, {BlankLine},
            {TextLine(l) : l \in SeqsUpTo({1}, MaxPerLine)}
                \cup {BadLine, [kind |-> "ioerr"], [kind |-> "eof"]})

FeedsFor(i) ==
    CASE cfg[i].stack = "config" -> {}
      [] cfg[i].stack = "sentences" -> PlainFeeds(lines[i].nread)
      [] cfg[i].stack \in IterStacks \/ lines[i].eof -> {<< >>}
      [] cfg[i].stack = "tokens" -> RawFeeds(lines[i].nread)
      [] Concurrent -> OwnFeeds(i, lines[i].nread)
      [] OTHER -> Feeds(lines[i].nread)

\* the chunks the consumer has received
ChunksOf(o) == SelectSeq(o, LAMBDA e : e.tag = "Ok")

Emitted(o) == Flatten([k \in DOMAIN ChunksOf(o) |-> ChunksOf(o)[k].val])

\* history: the items a stand-alone TryChunks has taken from its upstream and
\* not emitted in a chunk
InFlight(input, rest, o) ==
    {input[k].val : k \in {j \in 1..(Len(input) - Len(rest)) : input[j].tag = "Ok"}}
        \ Range(Emitted(o))

\* the consumer polls until it is given the end of the stream (or the poll panics)
CanPoll(i) ==
    IF out[i] = << >> THEN TRUE ELSE out[i][Len(out[i])].tag \notin {"None", "Panic"}

\* the instances whose lines read are kept in the history
RecordsLines(i) == cfg[i].stack \in {"tokens", "sentences"} \/ cfg[i].reader

-----------------------------------------------------------------------------
(* SentenceStreamReader: the chunks as the bytes of the response *)

\* The bytes are kept in units: Block(id) holds the lines of the serialized
\* sentence id, each ended by a line feed, and Nl is one line feed, a blank line.
Block(id) == [unit |-> "block", id |-> id]
Nl == [unit |-> "nl"]

\* for sentence in sentences { writer.write_sentence(&sentence) }: a Writer
\* puts a blank line before every sentence but the first it writes
RECURSIVE WriteSentences(_, _, _)
WriteSentences(write_buf, first, ss) ==
    IF ss = << >> THEN write_buf
    ELSE WriteSentences(write_buf \o (IF first THEN << >> ELSE <<Nl>>) \o <<Block(Head(ss).id)>>,
                        FALSE, Tail(ss))

\* write_buf after the loop: empty or b"\n" before it, by first_output
WriteChunk(first_output, chunk) ==
    WriteSentences(IF first_output THEN << >> ELSE <<Nl>>, TRUE, chunk)

CopyOutClear(rd, n) ==
    LET bytes_to_copy == Min(n, Len(rd.parse_buf))
    IN  [rd EXCEPT !.body = @ \o SubSeq(rd.parse_buf, 1, bytes_to_copy),
                   !.parse_buf = << >>,
                   !.state = IF bytes_to_copy = 0 THEN "eof" ELSE @,
                   !.len = n, !.ret = bytes_to_copy]

\* the end of poll_read: min(buf.len(), parse_buf.len()) bytes are handed out;
\* the body takes a read of 0 bytes for the end of the response; len and ret
\* keep buf.len() and the value returned by the call
CopyOut(rd, n) ==
    LET bytes_to_copy == Min(n, Len(rd.parse_buf))
    IN  [rd EXCEPT !.body = @ \o SubSeq(rd.parse_buf, 1, bytes_to_copy),
                   !.parse_buf = SubSeq(rd.parse_buf, bytes_to_copy + 1, Len(rd.parse_buf)),
                   !.state = IF bytes_to_copy = 0 THEN "eof" ELSE @,
                   !.len = n, !.ret = bytes_to_copy]

\* Error::new(ErrorKind::InvalidData, err) of write_sentence for sentence k
SerializeErr(k) == [tag |-> "Err", kind |-> "serialize", sentence |-> k]

ReadOnItemPartial(rd, res, n, fail) ==
    CASE res.tag = "Pending" -> rd
      [] res.tag = "None" -> [rd EXCEPT !.state = "eof"]
      [] res.tag = "Ok" ->
            IF fail > 0
            THEN [CopyOut([rd EXCEPT
                      !.first_output = FALSE,
                      !.parse_buf = WriteChunk(rd.first_output, SubSeq(res.val, 1, fail - 1))],
                      n)
                  EXCEPT !.state = "failed", !.err = SerializeErr(fail)]
            ELSE CopyOut([rd EXCEPT !.first_output = FALSE,
                                    !.parse_buf = WriteChunk(rd.first_output, res.val)], n)
      [] OTHER -> [rd EXCEPT !.state = "failed", !.err = res]

\* poll_read with an empty parse_buf, res the answer of annotations.poll_next
ReadOnItem(rd, res, n, fail) ==
    CASE res.tag = "Pending" -> rd
      [] res.tag = "None" -> [rd EXCEPT !.state = "eof"]
      [] res.tag = "Ok" ->
            IF fail > 0
            THEN [rd EXCEPT !.first_output = FALSE, !.state = "failed",
                            !.err = SerializeErr(fail)]
            ELSE CopyOut([rd EXCEPT !.first_output = FALSE,
                                    !.parse_buf = WriteChunk(rd.first_output, res.val)], n)
      [] OTHER -> [rd EXCEPT !.state = "failed", !.err = res]

-----------------------------------------------------------------------------
(* Actions *)

\* One poll_next of the outermost stream of instance i, answered with r after
\* the line stream delivered feed.
Pull(i, feed, r) ==
    /\ r.st.feed = << >>
    /\ Store(i, r.st)
    /\ out' = [out EXCEPT ![i] = IF r.res.tag = "Pending" THEN @ ELSE Append(@, r.res)]
    /\ hist' = [hist EXCEPT ![i].dropped =
          IF r.res.tag = "Err" /\ cfg[i].stack = "chunks"
          THEN @ \cup InFlight(hist[i].input, r.st.iter, out[i]) ELSE @,
                             ![i].read =
          IF RecordsLines(i)
          THEN @ \o SelectSeq(feed, LAMBDA e : e.kind # "eof") ELSE @,
                             ![i].widest =
          IF r.st.sentences.made - sentences[i].made > @
          THEN r.st.sentences.made - sentences[i].made ELSE @]

\* The consumer polls the outermost stream of instance i once.
Poll(i) ==
    /\ CanPoll(i)
    /\ \E feed \in FeedsFor(i) :
          \E r \in {TopPoll(Bundle(i, feed))} : Pull(i, feed, r)
    /\ UNCHANGED <<reader, threads, cfg>>

\* The response body calls poll_read of the reader of instance i with a
\* destination buffer of n bytes; fail is the sentence of the chunk whose
\* serialization fails, 0 for none.
PollRead(i, n, fail) ==
    /\ reader[i].state = "open"
    /\ IF reader[i].parse_buf # << >>
       THEN /\ fail = 0
            /\ reader' = [reader EXCEPT ![i] = CopyOut(@, n)]
            /\ UNCHANGED <<iter, lines, sentences, chunks, annotations, metadata, out, hist>>
       ELSE \E feed \in FeedsFor(i) :
               \E r \in {TopPoll(Bundle(i, feed))} :
                   /\ Pull(i, feed, r)
                   /\ fail \in 0..(IF r.res.tag = "Ok" THEN Len(r.res.val) ELSE 0)
                   /\ reader' = [reader EXCEPT ![i] = ReadOnItem(@, r.res, n, fail)]
    /\ UNCHANGED <<threads, cfg>>

SegDoneReadAhead(i) ==
    /\ sentences[i].task.status = "running"
    /\ sentences' = [sentences EXCEPT ![i].task =
            [status |-> "done", result |-> Tokenize(sentences[i].task.line)]]
    /\ lines' = [lines EXCEPT ![i].nread = IF @ < MaxLines THEN @ + 1 ELSE @]
    /\ UNCHANGED <<reader, threads, cfg, iter, chunks, annotations, metadata, out, hist>>

\* The segmentation task of instance i completes on the worker pool.
SegDone(i) ==
    /\ sentences[i].task.status = "running"
    /\ sentences' = [sentences EXCEPT ![i].task =
            [status |-> "done", result |-> Tokenize(sentences[i].task.line)]]
    /\ UNCHANGED <<reader, threads, cfg, iter, lines, chunks, annotations, metadata, out, hist>>

\* The annotation task starts: tokenize, filter, sort, split into runs.
AnnStart(i) ==
    /\ annotations[i].task.status = "spawned"
    /\ LET t == annotations[i].task
           swp == SentencesWithPieces(t.chunk, cfg[i].max_len)
       IN  IF cfg[i].batch_size = 0
           THEN \* par_chunks_mut panics on a chunk size of 0
                annotations' = [annotations EXCEPT ![i].task =
                    [status |-> "panicked", chunk |-> t.chunk]]
           ELSE \E refs \in SortedRefs(swp) :
                  LET batches == ParChunks(refs, cfg[i].batch_size)
                  IN  annotations' = [annotations EXCEPT ![i].task =
                          [status |-> "running", chunk |-> t.chunk, swp |-> swp,
                           runs |-> [k \in DOMAIN batches |->
                                        [members |-> batches[k], st |-> "idle"]]]]
    /\ UNCHANGED <<reader, threads, cfg, iter, lines, sentences, chunks, metadata, out, hist>>

\* number of rayon threads that hold a run, over all instances
Busy ==
    LET held(i) == IF annotations[i].task.status = "running"
                   THEN Cardinality(RunsOnThread(annotations[i].task.runs)) ELSE 0
        RECURSIVE Sum(_)
        Sum(I) == IF I = {} THEN 0
                  ELSE LET i == CHOOSE j \in I : TRUE IN held(i) + Sum(I \ {i})
    IN  Sum(Insts)

CanClaimAfterFailure(runs, k, busy, nthreads) ==
    /\ runs[k].st = "idle"
    /\ busy < nthreads

CanClaimAnyThread(runs, k, busy, nthreads) ==
    /\ runs[k].st = "idle"
    /\ ~Full(runs)

\* a pool thread may take run k: a thread is free and no run has failed yet;
\* a pool of one thread takes the runs in their order
CanClaim(runs, k, busy, nthreads) ==
    /\ runs[k].st = "idle"
    /\ ~Full(runs)
    /\ busy < nthreads
    /\ nthreads = 1 => \A j \in 1..(k - 1) : runs[j].st # "idle"

\* A rayon thread takes run k of the chunk of instance i.
RunClaim(i, k) ==
    /\ annotations[i].task.status = "running"
    /\ k \in DOMAIN annotations[i].task.runs
    /\ CanClaim(annotations[i].task.runs, k, Busy, threads)
    /\ annotations' = [annotations EXCEPT ![i].task.runs[k].st = "claimed"]
    /\ UNCHANGED <<reader, threads, cfg, iter, lines, sentences, chunks, metadata, out, hist>>

Ids(ss) == {ss[k].id : k \in DOMAIN ss}

MemberIds(t, k) == {t.swp[j].sentence.id : j \in t.runs[k].members}

MemberKeys(t, k) ==
    {[id |-> t.swp[j].sentence.id, npieces |-> t.swp[j].sentence.npieces] :
        j \in t.runs[k].members}

\* The thread calls tagger.tag_sentences(batch) for run k.
RunTag(i, k) ==
    /\ annotations[i].task.status = "running"
    /\ k \in DOMAIN annotations[i].task.runs
    /\ annotations[i].task.runs[k].st = "claimed"
    /\ annotations' = [annotations EXCEPT ![i].task.runs[k].st = "running"]
    /\ hist' = [hist EXCEPT ![i].passed = @ \cup MemberKeys(annotations[i].task, k),
                            ![i].started = @ + 1]
    /\ UNCHANGED <<reader, threads, cfg, iter, lines, sentences, chunks, metadata, out>>

\* tag_sentences returns for run k, with Ok or with an error.
RunFinish(i, k, ok) ==
    /\ annotations[i].task.status = "running"
    /\ k \in DOMAIN annotations[i].task.runs
    /\ annotations[i].task.runs[k].st = "running"
    /\ LET t == annotations[i].task
       IN  /\ annotations' = [annotations EXCEPT
                 ![i].task.runs[k].st = IF ok THEN "ok" ELSE "failed",
                 ![i].task.swp = IF ok THEN TagMembers(t.swp, t.runs[k].members) ELSE @]
           /\ hist' = [hist EXCEPT ![i].calls =
                 Append(@, [ids |-> MemberIds(t, k), chunk |-> Ids(t.chunk), ok |-> ok])]
    /\ UNCHANGED <<reader, threads, cfg, iter, lines, sentences, chunks, metadata, out>>

\* try_for_each returns: no run is held by a thread, and none is left to take
ParDone(runs) ==
    /\ RunsOnThread(runs) = {}
    /\ Full(runs) \/ \A k \in DOMAIN runs : runs[k].st # "idle"

AnnDoneSharedFailure(i) ==
    /\ annotations[i].task.status = "running"
    /\ ParDone(annotations[i].task.runs)
    /\ annotations' = [annotations EXCEPT ![i].task =
            [status |-> "done", chunk |-> annotations[i].task.chunk,
             result |-> IF \E j \in Insts : reader[j].state = "failed"
                        THEN [ok |-> FALSE, val |-> << >>]
                        ELSE AnnotateResult(annotations[i].task)]]
    /\ UNCHANGED <<reader, threads, cfg, iter, lines, sentences, chunks, metadata, out, hist>>

\* annotate_sentences returns and the annotation task completes.
AnnDone(i) ==
    /\ annotations[i].task.status = "running"
    /\ ParDone(annotations[i].task.runs)
    /\ annotations' = [annotations EXCEPT ![i].task =
            [status |-> "done", chunk |-> annotations[i].task.chunk,
             result |-> AnnotateResult(annotations[i].task)]]
    /\ UNCHANGED <<reader, threads, cfg, iter, lines, sentences, chunks, metadata, out, hist>>

\* The stamping task of instance i completes.
MetaDone(i) ==
    /\ metadata[i].task.status = "running"
    /\ metadata' = [metadata EXCEPT ![i].task =
            [status |-> "done", result |-> Stamp(metadata[i].task.chunk, cfg[i].name)]]
    /\ UNCHANGED <<reader, threads, cfg, iter, lines, sentences, chunks, annotations, out, hist>>

-----------------------------------------------------------------------------
(* Initial states *)

\* (batch_size, read_ahead) of the pipelines served
Shapes == {<<1, 1>>, <<2, 1>>, <<3, 2>>, <<16, 4>>, <<1, 2>>}

MaxLens == {NoMax, SomeMax(1)}

ThreadChoices == {1, 2}

\* the pipelines served: "nl" in every shape, and a second one, "de"
AnnotateConfigs ==
    {[stack |-> "annotate", name |-> "nl", batch_size |-> sh[1], read_ahead |-> sh[2],
      max_len |-> ml, reader |-> FALSE] : sh \in Shapes, ml \in MaxLens}
    \cup {[stack |-> "annotate", name |-> "de", batch_size |-> 2, read_ahead |-> 1,
           max_len |-> NoMax, reader |-> FALSE]}

Fresh(I) ==
    /\ lines = [i \in I |-> [eof |-> FALSE, nread |-> 0]]
    /\ sentences = [i \in I |-> [state |-> "Lines", task |-> NoTask, queue |-> << >>, made |-> 0]]
    /\ chunks = [i \in I |-> [buf |-> << >>]]
    /\ annotations = [i \in I |-> [state |-> "Sentences", task |-> NoTask]]
    /\ metadata = [i \in I |-> [state |-> "Sentences", task |-> NoTask]]
    /\ out = [i \in I |-> << >>]
    /\ reader = [i \in I |-> [first_output |-> TRUE, parse_buf |-> << >>, body |-> << >>,
                               state |-> "open", err |-> None, len |-> 0, ret |-> 0]]
    /\ hist = [i \in I |-> [input |-> iter[i], dropped |-> {}, read |-> << >>, widest |-> 0,
                             passed |-> {},
                             started |-> 0, calls |-> << >>]]

\* one request to an annotate pipeline
Init ==
    /\ threads \in ThreadChoices
    /\ cfg \in [{1} -> AnnotateConfigs]
    /\ iter = [i \in {1} |-> << >>]
    /\ Fresh({1})

MaxRuns == MaxLines * MaxPerLine

Next ==
    \/ \E i \in Insts : Poll(i)
    \/ \E i \in Insts : SegDone(i)
    \/ \E i \in Insts : AnnStart(i)
    \/ \E i \in Insts, k \in 1..MaxRuns : RunClaim(i, k)
    \/ \E i \in Insts, k \in 1..MaxRuns : RunTag(i, k)
    \/ \E i \in Insts, k \in 1..MaxRuns, ok \in BOOLEAN : RunFinish(i, k, ok)
    \/ \E i \in Insts : AnnDone(i)
    \/ \E i \in Insts : MetaDone(i)

Spec == Init /\ [][Next]_vars

-----------------------------------------------------------------------------
(* A stand-alone TryChunks over stream::iter, as in its tests *)

\* upstreams of up to MaxItems results: item j is Ok(j) or an error
IterInputs ==
    UNION {{[j \in 1..n |-> IF j \in E THEN Err("io") ELSE Ok(j)] : E \in SUBSET (1..n)} :
              n \in 0..MaxItems}

ChunksConfigs ==
    {[stack |-> "chunks", name |-> "", chunk_len |-> c, batch_size |-> 1, read_ahead |-> 1,
      max_len |-> NoMax, reader |-> FALSE] : c \in 1..MaxCap}

InitChunks ==
    /\ threads = 1
    /\ cfg \in [{1} -> ChunksConfigs]
    /\ iter \in [{1} -> IterInputs]
    /\ Fresh({1})

NextChunks == \E i \in Insts : Poll(i)

SpecChunks == InitChunks /\ [][NextChunks]_vars

-----------------------------------------------------------------------------
(* A stand-alone Metadata over stream::iter *)

MaxStampItems == 3   \* results of the upstream of a stand-alone stamper

\* the comments a sentence may carry when it reaches the stamper
PriorComments == {<< >>, <<[attr |-> "sent_id", val |-> "s"]>>}

\* the sizes of the chunks a stand-alone stamper is given
StampLens == 0..2

\* item j of the upstream: an error, or a chunk of sentences
StamperItems(j) ==
    {Err("io")} \cup
    UNION {{Ok([k \in 1..n |->
                 [NewSentence(2 * (j - 1) + k, <<1>>) EXCEPT !.comments = cs[k]]]) :
               cs \in [1..n -> PriorComments]} : n \in StampLens}

RECURSIVE StamperInputsOf(_)
StamperInputsOf(n) ==
    IF n = 0 THEN {<< >>}
    ELSE {Append(s, it) : s \in StamperInputsOf(n - 1), it \in StamperItems(n)}

\* upstreams of up to max results
StamperInputs(max) == UNION {StamperInputsOf(n) : n \in 0..max}

StamperConfigs ==
    {[stack |-> "metadata", name |-> "nl", batch_size |-> 1, read_ahead |-> 1,
      max_len |-> NoMax, reader |-> FALSE]}

InitStamper ==
    /\ threads = 1
    /\ cfg \in [{1} -> StamperConfigs]
    /\ iter \in [{1} -> StamperInputs(MaxStampItems)]
    /\ Fresh({1})

NextStamper ==
    \/ \E i \in Insts : Poll(i)
    \/ \E i \in Insts : MetaDone(i)

SpecStamper == InitStamper /\ [][NextStamper]_vars

-----------------------------------------------------------------------------
(* The segment pipeline of handle_tokens over the WhitespaceTokenizer *)

TokensConfigs ==
    {[stack |-> "tokens", name |-> "nl", batch_size |-> 1, read_ahead |-> 1, max_len |-> NoMax,
      reader |-> FALSE]}

InitTokens ==
    /\ threads = 1
    /\ cfg \in [{1} -> TokensConfigs]
    /\ iter = [i \in {1} |-> << >>]
    /\ Fresh({1})

NextTokens ==
    \/ \E i \in Insts : Poll(i)
    \/ \E i \in Insts : SegDone(i)

SpecTokens == InitTokens /\ [][NextTokens]_vars

-----------------------------------------------------------------------------
(* Pipeline::sentences polled one sentence at a time *)

SentencesConfigs ==
    {[stack |-> "sentences", name |-> "nl", batch_size |-> 1, read_ahead |-> 1,
      max_len |-> NoMax, reader |-> FALSE]}

InitSentences ==
    /\ threads = 1
    /\ cfg \in [{1} -> SentencesConfigs]
    /\ iter = [i \in {1} |-> << >>]
    /\ Fresh({1})

SpecSentences == InitSentences /\ [][NextTokens]_vars

-----------------------------------------------------------------------------
(* A stand-alone UnicodeCleanup over stream::iter, as in its test, and one
   applied to the output of another *)

FormChars == {"e", "acute", "laquo", "fi"}

Forms == SeqsUpTo(FormChars, MaxForm) \ {<< >>}

\* sentences of one token and of two
Groups == {<<f>> : f \in Forms} \cup {<<f, g>> : f, g \in Forms}

\* one sentence, or a sentence, a read error and a second sentence
CleanupInputs ==
    {<<Ok(NewSentence(1, g))>> : g \in Groups}
    \cup {<<Ok(NewSentence(1, <<f>>)), Err("io"), Ok(NewSentence(2, <<g>>))>> : f, g \in Forms}

CleanupConfigs ==
    {[stack |-> st, name |-> "", normalization |-> n, batch_size |-> 1, read_ahead |-> 1,
      max_len |-> NoMax, reader |-> FALSE] : st \in {"cleanup", "cleanup2"}, n \in Normalizations}

InitCleanup ==
    /\ threads = 1
    /\ cfg \in [{1} -> CleanupConfigs]
    /\ iter \in [{1} -> CleanupInputs]
    /\ Fresh({1})

NextCleanup == \E i \in Insts : Poll(i)

SpecCleanup == InitCleanup /\ [][NextCleanup]_vars

-----------------------------------------------------------------------------
(* One request served by handle_annotations: the pipeline under a
   SentenceStreamReader *)

ReaderShapes == {<<1, 1>>, <<2, 1>>}

ReaderConfigs ==
    {[stack |-> "annotate", name |-> "nl", batch_size |-> sh[1], read_ahead |-> sh[2],
      max_len |-> ml, reader |-> TRUE] : sh \in ReaderShapes, ml \in MaxLens}

InitReader ==
    /\ threads = 1
    /\ cfg \in [{1} -> ReaderConfigs]
    /\ iter = [i \in {1} |-> << >>]
    /\ Fresh({1})

NextReader ==
    \/ \E i \in Insts, n \in 1..MaxBuf, fail \in 0..MaxRuns : PollRead(i, n, fail)
    \/ \E i \in Insts : SegDone(i)
    \/ \E i \in Insts : AnnStart(i)
    \/ \E i \in Insts, k \in 1..MaxRuns : RunClaim(i, k)
    \/ \E i \in Insts, k \in 1..MaxRuns : RunTag(i, k)
    \/ \E i \in Insts, k \in 1..MaxRuns, ok \in BOOLEAN : RunFinish(i, k, ok)
    \/ \E i \in Insts : AnnDone(i)
    \/ \E i \in Insts : MetaDone(i)

SpecReader == InitReader /\ [][NextReader]_vars

-----------------------------------------------------------------------------
(* Two requests served at once, by two pipelines that share the rayon pool *)

MultiConfigs ==
    {<<[stack |-> "annotate", name |-> "nl", batch_size |-> 1, read_ahead |-> 2,
        max_len |-> NoMax, reader |-> TRUE],
       [stack |-> "annotate", name |-> "de", batch_size |-> 2, read_ahead |-> 1,
        max_len |-> NoMax, reader |-> TRUE]>>}

InitMulti ==
    /\ threads \in ThreadChoices
    /\ cfg \in MultiConfigs
    /\ iter = [i \in {1, 2} |-> << >>]
    /\ Fresh({1, 2})

SpecMulti == InitMulti /\ [][NextReader]_vars

-----------------------------------------------------------------------------
(* Config::load: the pipelines of a configuration, and a request to one *)

KnownAnnotators == {"ud"}

KnownTokenizers == {"alpino"}

\* the batch_size and read_ahead a configuration file can give: a usize
ConfigSizes == 0..2

\* the entries of pipelines: in the configuration
PipelineConfigs ==
    {[stack |-> "config", name |-> "nl", annotator |-> a, tokenizer |-> t,
      batch_size |-> b, read_ahead |-> r, max_len |-> NoMax, reader |-> FALSE] :
        a \in KnownAnnotators \cup {"none"}, t \in KnownTokenizers \cup {"none"},
        b \in ConfigSizes, r \in ConfigSizes}

\* Arc::new(value) evaluated at site: a new allocation, so that two handles
\* are the same handle only if they are clones of the Arc of one evaluation
ArcNew(site, value) == [arc |-> site, value |-> value]

\* Pipeline::new: the annotator it is given is put in an Arc of its own, the
\* handle of the tokenizer is kept as it is given
PipelineNew(name, annotator, tokenizer, entry) ==
    [stack |-> "annotate", name |-> name,
     annotator |-> ArcNew(<<"Pipeline::new", name>>, annotator),
     tokenizer |-> tokenizer,
     batch_size |-> entry.batch_size, read_ahead |-> entry.read_ahead,
     max_len |-> entry.max_len, reader |-> entry.reader]

\* PipelineConfig::new_pipeline; annotators and tokenizers map the names
\* loaded to their handles
new_pipeline(entry, name, annotators, tokenizers) ==
    IF entry.annotator \notin DOMAIN annotators \/ entry.tokenizer \notin DOMAIN tokenizers
    THEN [ok |-> FALSE]
    ELSE [ok |-> TRUE,
          pipeline |-> PipelineNew(name, annotators[entry.annotator],
                                   tokenizers[entry.tokenizer], entry)]

\* a loop of Config::load over a section: every configuration is loaded, and
\* the first that fails to load ends the load; loaded maps names to handles
RECURSIVE LoadSection(_, _, _, _)
LoadSection(kind, section, k, loaded) ==
    IF k > Len(section) THEN [ok |-> TRUE, map |-> loaded]
    ELSE IF ~section[k].loads THEN [ok |-> FALSE]
    ELSE LoadSection(kind, section, k + 1,
             [n \in DOMAIN loaded \cup {section[k].name} |->
                 IF n = section[k].name THEN ArcNew(<<kind, k>>, section[k].name)
                 ELSE loaded[n]])

\* pipelines.insert(name.to_string(), pipeline) of an IndexMap
InsertPipeline(pipelines, pipeline) ==
    IF \E j \in DOMAIN pipelines : pipelines[j].name = pipeline.name
    THEN [j \in DOMAIN pipelines |->
             IF pipelines[j].name = pipeline.name THEN pipeline ELSE pipelines[j]]
    ELSE Append(pipelines, pipeline)

\* the loop of Config::load over the entries of pipelines:
RECURSIVE NewPipelines(_, _, _, _, _)
NewPipelines(entries, k, annotators, tokenizers, pipelines) ==
    IF k > Len(entries) THEN [ok |-> TRUE, pipelines |-> pipelines]
    ELSE LET p == new_pipeline(entries[k], entries[k].name, annotators, tokenizers)
         IN  IF ~p.ok THEN [ok |-> FALSE]
             ELSE NewPipelines(entries, k + 1, annotators, tokenizers,
                               InsertPipeline(pipelines, p.pipeline))

\* Config::load
load(config) ==
    LET tokenizers == LoadSection("tokenizers", config.tokenizers, 1, << >>)
        annotators == LoadSection("annotators", config.annotators, 1, << >>)
    IN  IF ~tokenizers.ok THEN [ok |-> FALSE]
        ELSE IF ~annotators.ok THEN [ok |-> FALSE]
        ELSE NewPipelines(config.pipelines, 1, annotators.map, tokenizers.map, << >>)

\* a configuration with one entry of pipelines: over the known annotators and
\* tokenizers, which load
ConfigOf(entry) ==
    [annotators |-> <<[name |-> "ud", loads |-> TRUE]>>,
     tokenizers |-> <<[name |-> "alpino", loads |-> TRUE]>>,
     pipelines |-> <<entry>>]

\* Config::load makes the pipeline of entry i, which is served from then on
LoadPipeline(i) ==
    /\ cfg[i].stack = "config"
    /\ load(ConfigOf(cfg[i])).ok
    /\ cfg' = [cfg EXCEPT ![i] = load(ConfigOf(cfg[i])).pipelines[1]]
    /\ UNCHANGED <<reader, threads, iter, lines, sentences, chunks, annotations, metadata,
                   out, hist>>

InitConfig ==
    /\ threads = 1
    /\ cfg \in [{1} -> PipelineConfigs]
    /\ iter = [i \in {1} |-> << >>]
    /\ Fresh({1})

NextConfig ==
    \/ \E i \in Insts : LoadPipeline(i)
    \/ \E i \in Insts : Poll(i)
    \/ \E i \in Insts : SegDone(i)
    \/ \E i \in Insts : AnnStart(i)
    \/ \E i \in Insts, k \in 1..MaxRuns : RunClaim(i, k)
    \/ \E i \in Insts, k \in 1..MaxRuns : RunTag(i, k)
    \/ \E i \in Insts, k \in 1..MaxRuns, ok \in BOOLEAN : RunFinish(i, k, ok)
    \/ \E i \in Insts : AnnDone(i)
    \/ \E i \in Insts : MetaDone(i)

SpecConfig == InitConfig /\ [][NextConfig]_vars

-----------------------------------------------------------------------------
(* Config::load called on a configuration *)

MaxEntries == 2   \* entries of pipelines: in a configuration

AnnotatorNames == <<"ud", "de">>

TokenizerNames == <<"alpino", "ws">>

PipelineNames == [k \in 1..(MaxEntries + 1) |-> k]

\* a section of up to two configurations, each of which loads or fails to
Sections(names) ==
    UNION {{[k \in 1..n |-> [name |-> names[k], loads |-> l[k]]] : l \in [1..n -> BOOLEAN]} :
              n \in 0..Len(names)}

LoadShapes == {<<1, 1>>, <<0, 2>>}

\* entry k of pipelines:, which may name an annotator or a tokenizer that no
\* section has
Entries(k) ==
    {[stack |-> "config", name |-> PipelineNames[k], annotator |-> a, tokenizer |-> t,
      batch_size |-> sh[1], read_ahead |-> sh[2], max_len |-> NoMax, reader |-> FALSE] :
        a \in Range(AnnotatorNames) \cup {"none"}, t \in Range(TokenizerNames) \cup {"none"},
        sh \in LoadShapes}

RECURSIVE EntriesOf(_)
EntriesOf(n) ==
    IF n = 0 THEN {<< >>}
    ELSE {Append(es, e) : es \in EntriesOf(n - 1), e \in Entries(n)}

\* configurations with up to max entries of pipelines:
Configs(max) ==
    {[annotators |-> a, tokenizers |-> t, pipelines |-> es] :
        a \in Sections(AnnotatorNames), t \in Sections(TokenizerNames),
        es \in UNION {EntriesOf(n) : n \in 0..max}}

LoadConfigs ==
    {[stack |-> "load", name |-> "", batch_size |-> 1, read_ahead |-> 1, max_len |-> NoMax,
      reader |-> FALSE]}

InitLoad ==
    /\ threads = 1
    /\ cfg \in [{1} -> LoadConfigs]
    /\ iter \in [{1} -> {<<c>> : c \in Configs(MaxEntries)}]
    /\ Fresh({1})

\* config.load()
ConfigLoad(i) ==
    /\ cfg[i].stack = "load"
    /\ iter[i] # << >>
    /\ iter' = [iter EXCEPT ![i] = Tail(@)]
    /\ out' = [out EXCEPT ![i] = Append(@, load(Head(iter[i])))]
    /\ UNCHANGED <<reader, threads, cfg, lines, sentences, chunks, annotations, metadata, hist>>

NextLoad == \E i \in Insts : ConfigLoad(i)

SpecLoad == InitLoad /\ [][NextLoad]_vars

-----------------------------------------------------------------------------
(* WhitespaceTokenizer::tokenize called on a text, as in its test *)

TextChars == {"a", "b", " ", "LF", "CR"}

Texts == SeqsUpTo(TextChars, MaxText)

TokenizeConfigs ==
    {[stack |-> "tokenize", name |-> "", batch_size |-> 1, read_ahead |-> 1, max_len |-> NoMax,
      reader |-> FALSE]}

InitText ==
    /\ threads = 1
    /\ cfg \in [{1} -> TokenizeConfigs]
    /\ iter \in [{1} -> {<<t>> : t \in Texts}]
    /\ Fresh({1})

\* tokenizer.tokenize(text)
TokenizeText(i) ==
    /\ cfg[i].stack = "tokenize"
    /\ iter[i] # << >>
    /\ iter' = [iter EXCEPT ![i] = Tail(@)]
    /\ out' = [out EXCEPT ![i] = Append(@, WhitespaceTokenizer(Head(iter[i])))]
    /\ UNCHANGED <<reader, threads, cfg, lines, sentences, chunks, annotations, metadata, hist>>

NextText == \E i \in Insts : TokenizeText(i)

SpecText == InitText /\ [][NextText]_vars

-----------------------------------------------------------------------------
(* Properties of the chunk accumulator *)

Ended(i) == out[i] # << >> /\ out[i][Len(out[i])].tag = "None"

ErrorFree(input) == \A k \in DOMAIN input : input[k].tag = "Ok"

ChunkSizes(o) == [k \in DOMAIN ChunksOf(o) |-> Len(ChunksOf(o)[k].val)]

\* C2: over an error-free upstream of L items, a TryChunks of capacity C emits
\* the items in arrival order, in chunks of exactly C items except a last one
\* of 1..C items, and by the end of the stream exactly ceil(L/C) chunks that
\* hold all L items (none for L = 0).
ChunkingComplete ==
    \A i \in Insts :
        (cfg[i].stack = "chunks" /\ ErrorFree(hist[i].input)) =>
            LET sizes == ChunkSizes(out[i])
                items == Emitted(out[i])
                C == cfg[i].chunk_len
                L == Len(hist[i].input)
            IN  /\ \A k \in DOMAIN items : items[k] = k
                /\ Len(items) <= L
                /\ \A k \in DOMAIN sizes :
                      /\ sizes[k] \in 1..C
                      /\ k < Len(sizes) => sizes[k] = C
                /\ Ended(i) => Len(sizes) = Ceil(L, C) /\ Len(items) = L

\* capacity 3 and 5 items: the chunks [1,2,3] and [4,5], then the end
ChunkingCompleteWitness ==
    \E i \in Insts :
        /\ cfg[i].stack = "chunks" /\ cfg[i].chunk_len = 3
        /\ ErrorFree(hist[i].input) /\ Len(hist[i].input) = 5
        /\ Ended(i)
        /\ ChunkSizes(out[i]) = <<3, 2>>

\* C3: the items a TryChunks holds in its buffer when its upstream yields an
\* error are discarded: none of them is in a chunk it emits afterwards.
DiscardOnError ==
    \A i \in Insts :
        cfg[i].stack = "chunks" => Range(Emitted(out[i])) \cap hist[i].dropped = {}

-----------------------------------------------------------------------------
(* Properties of the annotate pipeline *)

Annotating(i) == cfg[i].stack = "annotate"

EmittedIds(i) == [k \in DOMAIN Emitted(out[i]) |-> Emitted(out[i])[k].id]

\* C1: the flattened output of an annotate pipeline lists the sentences in the
\* index order of the input, whatever their piece counts: the ids ascend, and
\* without a max_len they are 1, 2, 3, ... with no gap.
OrderPreserved ==
    \A i \in Insts :
        Annotating(i) =>
            LET ids == EmittedIds(i)
            IN  /\ \A a, b \in DOMAIN ids : a < b => ids[a] < ids[b]
                /\ ~cfg[i].max_len.some => \A k \in DOMAIN ids : ids[k] = k

\* a chunk came out in input order although its first sentence is the longer one
OrderPreservedWitness ==
    \E i \in Insts :
        /\ Annotating(i)
        /\ \E k \in DOMAIN out[i] :
              /\ out[i][k].tag = "Ok"
              /\ Len(out[i][k].val) >= 2
              /\ out[i][k].val[1].npieces > out[i][k].val[2].npieces
              /\ out[i][k].val[1].tagged /\ out[i][k].val[2].tagged

\* the sentences held by the stamping task
StampingIds(i) ==
    CASE metadata[i].task.status = "running" -> Ids(metadata[i].task.chunk)
      [] metadata[i].task.status = "done" -> Ids(metadata[i].task.result)
      [] OTHER -> {}

NoOtherError(i) == \A k \in DOMAIN out[i] : out[i][k].tag = "Err" => out[i][k].kind = "annotate"

\* C4: with one tagger invocation per chunk, if the 1st invocation succeeds and
\* the 2nd fails, the consumer receives the sentences of chunk 1, then an
\* error, and nothing more; no other sentence reaches the stamper or the
\* consumer and the tagger is not invoked again.
FailurePropagation ==
    \A i \in Insts :
        (/\ Annotating(i) /\ cfg[i].read_ahead = 1 /\ ~cfg[i].max_len.some
         /\ NoOtherError(i)
         /\ Len(hist[i].calls) >= 2
         /\ hist[i].calls[1].ok /\ ~hist[i].calls[2].ok) =>
            /\ Len(hist[i].calls) = 2 /\ hist[i].started = 2
            /\ Len(out[i]) \in 1..3
            /\ out[i][1].tag = "Ok" /\ Ids(out[i][1].val) = hist[i].calls[1].chunk
            /\ Len(out[i]) >= 2 => out[i][2] = Err("annotate")
            /\ Len(out[i]) >= 3 => out[i][3] = Panic
            /\ StampingIds(i) = {}
            /\ annotations[i].state = "Annotate"

\* three chunks of one sentence: chunk 1 delivered, chunk 2 failed, the third
\* sentence still waits in the segmenter
FailurePropagationWitness ==
    \E i \in Insts :
        /\ Annotating(i) /\ cfg[i].read_ahead = 1 /\ cfg[i].batch_size = 1
        /\ ~cfg[i].max_len.some
        /\ sentences[i].made = 3 /\ Len(sentences[i].queue) = 1
        /\ Len(out[i]) = 2 /\ out[i][1].tag = "Ok" /\ out[i][2] = Err("annotate")
        /\ Len(hist[i].calls) = 2 /\ hist[i].calls[1].ok /\ ~hist[i].calls[2].ok

-----------------------------------------------------------------------------
(* The runs of one chunk *)

Tagging(i) == Annotating(i) /\ annotations[i].task.status = "running"

FailedChunks(i) == {c.chunk : c \in {d \in Range(hist[i].calls) : ~d.ok}}

\* no sentence of a chunk with a failed run is emitted or handed to the stamper,
\* and the task of such a chunk ends with an error
FailedChunkNotEmitted(i) ==
    /\ \A c \in FailedChunks(i) :
          c \cap (Range(EmittedIds(i)) \cup StampingIds(i)) = {}
    /\ (annotations[i].task.status = "done"
           /\ Ids(annotations[i].task.chunk) \in FailedChunks(i)) =>
              ~annotations[i].task.result.ok

StartsRun(i) ==
    /\ Tagging(i) /\ annotations'[i].task.status = "running"
    /\ RunsInProgress(annotations'[i].task.runs) # RunsInProgress(annotations[i].task.runs)
    /\ RunsInProgress(annotations[i].task.runs) \subseteq RunsInProgress(annotations'[i].task.runs)

ClaimsRun(i) ==
    /\ Tagging(i) /\ annotations'[i].task.status = "running"
    /\ \E k \in DOMAIN annotations[i].task.runs :
          /\ annotations[i].task.runs[k].st = "idle"
          /\ annotations'[i].task.runs[k].st # "idle"

\* C5 as claimed: a chunk with a failed run is not emitted, and after the
\* failure no further run of the chunk is started.
NoRunStartsAfterFailure ==
    [][\A i \in Insts :
          /\ Annotating(i) => FailedChunkNotEmitted(i)'
          /\ (Tagging(i) /\ Full(annotations[i].task.runs)) => ~StartsRun(i)]_vars

\* C5: a chunk with a failed run yields an error and none of its sentences is
\* emitted, the tagged ones included; after the failure no pool thread takes
\* a further run of the chunk (a run a thread had already taken may still be
\* tagged).
NoRunClaimedAfterFailure ==
    [][\A i \in Insts :
          /\ Annotating(i) => FailedChunkNotEmitted(i)'
          /\ (Tagging(i) /\ Full(annotations[i].task.runs)) => ~ClaimsRun(i)]_vars

\* a chunk of two runs, one tagged and one failed, answered with the error
NoRunClaimedAfterFailureWitness ==
    \E i \in Insts :
        /\ Annotating(i)
        /\ annotations[i].task.status = "taken"
        /\ out[i] # << >> /\ out[i][Len(out[i])] = Err("annotate")
        /\ \E a, b \in DOMAIN hist[i].calls :
              /\ hist[i].calls[a].ok /\ ~hist[i].calls[b].ok
              /\ hist[i].calls[a].chunk = hist[i].calls[b].chunk

\* C6 as claimed: at most one tagger invocation of a chunk is in progress, and
\* run k+1 is not started before run k has completed.
RunsSequential ==
    \A i \in Insts :
        Tagging(i) =>
            LET runs == annotations[i].task.runs
            IN  /\ Cardinality(RunsInProgress(runs)) <= 1
                /\ \A k \in DOMAIN runs :
                      (k > 1 /\ runs[k].st \in {"running", "ok", "failed"}) =>
                          runs[k - 1].st \in {"ok", "failed"}

\* C6: the runs of a chunk are tagged by the threads of the rayon pool: at most
\* as many tagger invocations are in progress as the pool has threads (one at
\* a time only for a pool of one thread).
RunsWithinPool ==
    /\ Busy <= threads
    /\ \A i \in Insts :
          Tagging(i) => Cardinality(RunsInProgress(annotations[i].task.runs)) <= threads

\* two runs of one chunk are being tagged at once
RunsWithinPoolWitness ==
    \E i \in Insts :
        /\ Tagging(i)
        /\ Cardinality(RunsInProgress(annotations[i].task.runs)) = 2

-----------------------------------------------------------------------------
(* Tasks and memory of one instance *)

\* tasks given to spawn() whose result the stage has not yet collected
SegOutstanding(i) == sentences[i].task.status \in {"running", "done"}
AnnOutstanding(i) == annotations[i].task.status \in {"spawned", "running", "done"}
MetaOutstanding(i) == metadata[i].task.status \in {"running", "done"}

Outstanding(i) ==
    (IF SegOutstanding(i) THEN 1 ELSE 0) + (IF AnnOutstanding(i) THEN 1 ELSE 0)
        + (IF MetaOutstanding(i) THEN 1 ELSE 0)

\* C7: an instance has at most one spawned task outstanding, and while the
\* annotation task of a chunk is outstanding the instance reads no line, takes
\* no sentence from the segmenter or the accumulator, and spawns no other task.
OneTaskInFlight ==
    /\ [](\A i \in Insts : Outstanding(i) <= 1)
    /\ [][\A i \in Insts :
             (Annotating(i) /\ AnnOutstanding(i)) =>
                 /\ lines'[i] = lines[i]
                 /\ sentences'[i] = sentences[i]
                 /\ chunks'[i] = chunks[i]
                 /\ annotations'[i].task.status # "spawned"
                        \/ annotations[i].task.status = "spawned"]_vars

\* a chunk is being tagged while the segmenter still has a sentence queued
OneTaskInFlightWitness ==
    \E i \in Insts : Tagging(i) /\ sentences[i].queue # << >>

\* sentences held by the annotation task and by the stamping task
AnnHeld(i) ==
    LET t == annotations[i].task
    IN  CASE t.status \in {"spawned", "running"} -> Len(t.chunk)
          [] t.status = "done" -> Len(t.result.val)
          [] OTHER -> 0

MetaHeld(i) ==
    LET t == metadata[i].task
    IN  CASE t.status = "running" -> Len(t.chunk)
          [] t.status = "done" -> Len(t.result)
          [] OTHER -> 0

Held(i) == Len(sentences[i].queue) + Len(chunks[i].buf) + AnnHeld(i) + MetaHeld(i)

\* C8 as claimed: an instance never holds more than read_ahead x batch_size
\* sentences.
BoundedMemory ==
    \A i \in Insts : Annotating(i) => Held(i) <= ChunkLen(cfg[i])

\* C8: the accumulator buffer and the chunk being annotated or stamped hold at
\* most read_ahead x batch_size sentences together; with the segmenter queue,
\* which holds the rest of one line, an instance holds at most
\* read_ahead x batch_size + n - 1 sentences, n the most sentences of a line.
BoundedByChunkAndLine ==
    \A i \in Insts :
        Annotating(i) =>
            /\ Len(chunks[i].buf) + AnnHeld(i) + MetaHeld(i) <= ChunkLen(cfg[i])
            /\ Len(sentences[i].queue) <= hist[i].widest
            /\ Held(i) <= ChunkLen(cfg[i])
                            + (IF hist[i].widest > 1 THEN hist[i].widest - 1 ELSE 0)

\* a full chunk is being annotated and the line it came from is not used up
BoundedByChunkAndLineWitness ==
    \E i \in Insts :
        /\ Annotating(i)
        /\ AnnHeld(i) = ChunkLen(cfg[i])
        /\ sentences[i].queue # << >>
        /\ Held(i) > ChunkLen(cfg[i])

-----------------------------------------------------------------------------
(* The length filter *)

Fits(sentence, max_len) == ~max_len.some \/ sentence.npieces <= max_len.val

IdSeq(ss) == [k \in DOMAIN ss |-> ss[k].id]

\* C9: the annotated output of a chunk is the subsequence, in order, of its
\* sentences with at most max_len pieces (all of them without a max_len), and
\* no sentence with more pieces is passed to the tagger.
LengthFilter ==
    \A i \in Insts :
        Annotating(i) =>
            LET t == annotations[i].task
                kept(chunk) == SelectSeq(chunk, LAMBDA x : Fits(x, cfg[i].max_len))
            IN  /\ \A x \in hist[i].passed : Fits(x, cfg[i].max_len)
                /\ t.status = "running" => IdSeq(Unwrap(t.swp)) = IdSeq(kept(t.chunk))
                /\ (t.status = "done" /\ t.result.ok) =>
                      /\ IdSeq(Unwrap(t.result.val)) = IdSeq(kept(t.chunk))
                      /\ \A k \in DOMAIN t.result.val : t.result.val[k].sentence.tagged
                /\ \A k \in DOMAIN Emitted(out[i]) : Fits(Emitted(out[i])[k], cfg[i].max_len)

\* max_len = 1: of a chunk with a sentence of 2 pieces and one of 1 piece, the
\* second alone is annotated
LengthFilterWitness ==
    \E i \in Insts :
        /\ Annotating(i) /\ cfg[i].max_len = SomeMax(1)
        /\ annotations[i].task.status = "done" /\ annotations[i].task.result.ok
        /\ Len(annotations[i].task.chunk) = 2
        /\ annotations[i].task.chunk[1].npieces = 2
        /\ annotations[i].task.chunk[2].npieces = 1
        /\ IdSeq(Unwrap(annotations[i].task.result.val)) = <<annotations[i].task.chunk[2].id>>

\* C10: every chunk emitted by the accumulator, the annotator and the stamper
\* has between 1 and batch_size x read_ahead sentences.
ChunksNeverEmpty ==
    \A i \in Insts :
        Annotating(i) =>
            LET sized(n) == n \in 1..ChunkLen(cfg[i])
            IN  /\ annotations[i].task.status \in {"spawned", "running"} =>
                      sized(Len(annotations[i].task.chunk))
                /\ (annotations[i].task.status = "done" /\ annotations[i].task.result.ok) =>
                      sized(Len(annotations[i].task.result.val))
                /\ metadata[i].task.status = "running" => sized(Len(metadata[i].task.chunk))
                /\ metadata[i].task.status = "done" => sized(Len(metadata[i].task.result))
                /\ \A k \in DOMAIN ChunksOf(out[i]) : sized(Len(ChunksOf(out[i])[k].val))

-----------------------------------------------------------------------------
(* The segmenter over the lines of a body *)

Segmenting(i) == cfg[i].stack = "tokens"

\* the lines read so far, and those of them with a character that is not whitespace
LinesRead(i) == SelectSeq(hist[i].read, LAMBDA e : e.kind = "raw")

NonBlankRead(i) == SelectSeq(LinesRead(i), LAMBDA l : ~AllWhitespace(l.text))

\* every sentence the instance holds or has emitted, oldest first
AllSentences(i) == Emitted(out[i]) \o chunks[i].buf \o sentences[i].queue

\* segmentation tasks submitted so far: one sentence was made of each collected
\* result, and at most one task is outstanding
Submitted(i) == sentences[i].made + (IF SegOutstanding(i) THEN 1 ELSE 0)

ErrorsOf(o) == SelectSeq(o, LAMBDA e : e.tag \in {"Err", "Panic"})

\* C11: a line that is empty or all whitespace gets no segmentation task, no
\* sentence and no error: the tasks submitted are as many as the non-blank
\* lines read, the sentences are those of the non-blank lines alone, in order
\* and numbered without a gap, and the only errors are the read errors.
BlankLinesSkipped ==
    \A i \in Insts :
        Segmenting(i) =>
            LET nonblank == NonBlankRead(i)
            IN  /\ Submitted(i) = Len(nonblank)
                /\ AllSentences(i) =
                      [k \in 1..sentences[i].made |->
                          NewSentence(k, SplitAsciiWhitespace(nonblank[k].text))]
                /\ ErrorsOf(out[i]) =
                      [k \in DOMAIN SelectSeq(hist[i].read, LAMBDA e : e.kind = "ioerr") |->
                          Err("io")]

\* a line of a space and a no-break space between two lines of text: both
\* sentences came out, numbered 1 and 2
BlankLinesSkippedWitness ==
    \E i \in Insts :
        /\ Segmenting(i) /\ Ended(i)
        /\ Len(LinesRead(i)) = 3
        /\ LinesRead(i)[2].text = <<" ", "NBSP">>
        /\ ~AllWhitespace(LinesRead(i)[1].text) /\ ~AllWhitespace(LinesRead(i)[3].text)
        /\ IdSeq(Emitted(out[i])) = <<1, 2>>

-----------------------------------------------------------------------------
(* The stamper *)

Stamped(sentence, name) == sentence.comments = <<PipelineComment(name)>>

\* C12: every sentence of every chunk an annotate pipeline emits carries the
\* provenance comment of its pipeline: the comment pipeline = name, with the
\* name of the pipeline that produced it, at every position of the chunk.
ProvenanceStamped ==
    \A i \in Insts :
        Annotating(i) =>
            \A k \in DOMAIN Emitted(out[i]) : Stamped(Emitted(out[i])[k], cfg[i].name)

\* the pipeline "de" has emitted a chunk of two sentences
ProvenanceStampedWitness ==
    \E i \in Insts :
        /\ Annotating(i) /\ cfg[i].name = "de"
        /\ \E k \in DOMAIN out[i] : out[i][k].tag = "Ok" /\ Len(out[i][k].val) = 2

-----------------------------------------------------------------------------
(* The Unicode normalizer *)

\* the token made of token `before` by one pass: normal is the normalized form
NormalizedToken(before, after, normal) ==
    IF normal # before.form
    THEN /\ after.form = normal
         /\ <<"orth", before.form>> \in after.misc
         /\ \A e \in after.misc : e[1] = "orth" => e[2] = before.form
         /\ {e \in after.misc : e[1] # "orth"} = {e \in before.misc : e[1] # "orth"}
    ELSE after = before

\* C13: the stage answers item k of its upstream with item k: an error with the
\* same error, a sentence with the sentence of the same tokens in the same
\* order, where a token whose normalized form differs has that form and its
\* former form under "orth", and any other token is unchanged.
NormalizerPerToken ==
    \A i \in Insts :
        cfg[i].stack = "cleanup" =>
            LET input == hist[i].input
                items == SelectSeq(out[i], LAMBDA e : e.tag # "None")
            IN  /\ Len(items) <= Len(input)
                /\ Ended(i) => Len(items) = Len(input)
                /\ \A k \in DOMAIN items :
                      IF input[k].tag = "Err" THEN items[k] = input[k]
                      ELSE /\ items[k].tag = "Ok"
                           /\ items[k].val.id = input[k].val.id
                           /\ DOMAIN items[k].val.tokens = DOMAIN input[k].val.tokens
                           /\ \A t \in DOMAIN input[k].val.tokens :
                                 NormalizedToken(input[k].val.tokens[t], items[k].val.tokens[t],
                                     simplify_unicode(input[k].val.tokens[t].form,
                                                      cfg[i].normalization))

\* as in the test: the quotation mark became "quot" with the original under
\* "orth", the token after it is as it was
NormalizerPerTokenWitness ==
    \E i \in Insts :
        /\ cfg[i].stack = "cleanup" /\ Ended(i)
        /\ hist[i].input = <<Ok(NewSentence(1, <<(<<"laquo">>), <<"e">>>>))>>
        /\ out[i][1].val.tokens =
              <<[form |-> <<"quot">>, misc |-> {<<"orth", <<"laquo">>>>}], Token(<<"e">>)>>

\* C14: a sentence that went through the stage twice is the sentence one pass
\* makes of it, forms and "orth" alike: the second pass leaves the stashed
\* original form in place.
NormalizationIdempotent ==
    \A i \in Insts :
        cfg[i].stack = "cleanup2" =>
            \A k \in DOMAIN out[i] :
                out[i][k].tag = "Ok" =>
                    /\ out[i][k].val =
                          cleanup_sentence_unicode(hist[i].input[k].val, cfg[i].normalization)
                    /\ \A t \in DOMAIN out[i][k].val.tokens :
                          LET before == hist[i].input[k].val.tokens[t]
                              after == out[i][k].val.tokens[t]
                          IN  after.form # before.form => after.misc = {<<"orth", before.form>>}

\* two passes over "e" + combining acute: the form is composed and "orth" still
\* holds the decomposed original
NormalizationIdempotentWitness ==
    \E i \in Insts :
        /\ cfg[i].stack = "cleanup2" /\ Ended(i)
        /\ out[i][1].tag = "Ok"
        /\ out[i][1].val.tokens[1] =
              [form |-> <<"eacute">>, misc |-> {<<"orth", <<"e", "acute">>>>}]

-----------------------------------------------------------------------------
(* The response *)

Served(i) == Annotating(i) /\ cfg[i].reader

\* C18: the sentence blocks of the response are separated by exactly one blank
\* line and nothing is before the first block: the response does not start
\* with a blank line, has no two blank lines in a row, and a complete response
\* does not end with one.
OutputFraming ==
    \A i \in Insts :
        Served(i) =>
            LET body == reader[i].body
            IN  /\ body # << >> => body[1] # Nl
                /\ \A k \in 1..(Len(body) - 1) : ~(body[k] = Nl /\ body[k + 1] = Nl)
                /\ (reader[i].state = "eof" /\ reader[i].parse_buf = << >> /\ body # << >>) =>
                       body[Len(body)] # Nl

-----------------------------------------------------------------------------
(* Requests served at once *)

\* the sentences of the chunk held by the annotation task, by the stamping task
AnnChunk(i) ==
    LET t == annotations[i].task
    IN  CASE t.status \in {"spawned", "running"} -> t.chunk
          [] t.status = "done" /\ t.result.ok -> Unwrap(t.result.val)
          [] OTHER -> << >>

MetaChunk(i) ==
    LET t == metadata[i].task
    IN  CASE t.status = "running" -> t.chunk
          [] t.status = "done" -> t.result
          [] OTHER -> << >>

\* every sentence instance i holds or has emitted, oldest first
InPipeline(i) ==
    Emitted(out[i]) \o MetaChunk(i) \o AnnChunk(i) \o chunks[i].buf \o sentences[i].queue

\* a sentence of the body of request i
Own(i, sentence) == sentence.npieces = i /\ Len(sentence.tokens) = i

BlockIds(body) ==
    LET blocks == SelectSeq(body, LAMBDA u : u.unit = "block")
    IN  [k \in DOMAIN blocks |-> blocks[k].id]

\* everything instance i owns
InstState(i) ==
    <<iter[i], lines[i], sentences[i], chunks[i], annotations[i], metadata[i], out[i],
      reader[i], hist[i]>>

\* C15: with requests served at once over one rayon pool, whatever the
\* interleaving, the sentences an instance holds, emits and writes to its
\* response are sentences of its own body, in the order of that body, and no
\* step of one instance changes the buffer, the queue or any other state of
\* another.
Isolation ==
    /\ [](\A i \in Insts :
             Served(i) =>
                 /\ \A k \in DOMAIN InPipeline(i) : Own(i, InPipeline(i)[k])
                 /\ \A a, b \in DOMAIN InPipeline(i) :
                       a < b => InPipeline(i)[a].id < InPipeline(i)[b].id
                 /\ \A k \in DOMAIN EmittedIds(i) : EmittedIds(i)[k] = k
                 /\ \A k \in DOMAIN BlockIds(reader[i].body) : BlockIds(reader[i].body)[k] = k
                 /\ Len(BlockIds(reader[i].body)) <= Len(EmittedIds(i)))
    /\ [][\A i, j \in Insts :
             (i # j /\ InstState(i)' # InstState(i)) => InstState(j)' = InstState(j)]_vars

\* both requests are being tagged at once, and a sentence of each is in a
\* response already or still in a buffer
IsolationWitness ==
    /\ Concurrent
    /\ \A i \in Insts :
          /\ Tagging(i) /\ RunsInProgress(annotations[i].task.runs) # {}
    /\ \E i \in Insts : Len(annotations[i].task.chunk) = 2

\* the request ended with an error
Failed(i) == reader[i].state = "failed"

\* the sentences the segmenter makes of the lines read, numbered from made + 1
RECURSIVE SentencesOf(_, _)
SentencesOf(read, made) ==
    IF read = << >> THEN << >>
    ELSE IF Head(read).kind = "text" /\ ~AllWhitespace(Head(read).text)
    THEN MakeSentences(Tokenize(Head(read)).tokens, made)
             \o SentencesOf(Tail(read), made + Len(Head(read).lens))
    ELSE SentencesOf(Tail(read), made)

\* the output of a request alone: its sentences tagged and stamped
Alone(i) ==
    LET ss == SentencesOf(hist[i].read, 0)
    IN  [k \in DOMAIN ss |->
            [ss[k] EXCEPT !.tagged = TRUE, !.comments = <<PipelineComment(cfg[i].name)>>]]

IsPrefix(s, t) == Len(s) <= Len(t) /\ s = SubSeq(t, 1, Len(s))

\* an error of instance i has its cause in the request of instance i
OwnCause(i, e) ==
    CASE e.tag = "Err" /\ e.kind = "io" ->
            \E k \in DOMAIN hist[i].read : hist[i].read[k].kind = "ioerr"
      [] e.tag = "Err" /\ e.kind = "tokenize" ->
            \E k \in DOMAIN hist[i].read : hist[i].read[k].kind = "bad"
      [] e.tag = "Err" /\ e.kind = "annotate" ->
            \E k \in DOMAIN hist[i].calls : ~hist[i].calls[k].ok
      [] OTHER -> e.tag # "Panic"

\* C16: when a request has ended with an error, every other request served at
\* the time gets the output it gets alone: it sees no error but of its own
\* lines, tagger calls and serialization, and as long as it has none its
\* response is its own sentences, tagged and stamped, in order, and complete
\* at the end of the response.
ErrorsRequestScoped ==
    \A i, j \in Insts :
        (i # j /\ Served(i) /\ Failed(j)) =>
            /\ \A k \in DOMAIN out[i] : OwnCause(i, out[i][k])
            /\ ~Failed(i) =>
                  /\ IsPrefix(Emitted(out[i]), Alone(i))
                  /\ IsPrefix(reader[i].body \o reader[i].parse_buf,
                              WriteChunk(TRUE, Alone(i)))
                  /\ reader[i].state = "eof" =>
                        /\ Emitted(out[i]) = Alone(i)
                        /\ reader[i].body = WriteChunk(TRUE, Alone(i))

\* request 1 ended with the error of its tagger, request 2 has its two
\* sentences in its response
ErrorsRequestScopedWitness ==
    /\ Concurrent
    /\ Failed(1) /\ out[1] # << >> /\ out[1][Len(out[1])] = Err("annotate")
    /\ reader[2].state = "eof"
    /\ reader[2].body = <<Block(1), Nl, Block(2)>>
    /\ \A k \in DOMAIN hist[2].calls : hist[2].calls[k].ok

-----------------------------------------------------------------------------
(* Segmentation failure *)

\* the segmentation task of instance i is finished and the segmenter has
\* rejected the line
Rejected(i) ==
    /\ sentences[i].task.status = "done"
    /\ ~sentences[i].task.result.some

\* C17: when the segmenter rejects a line, the poll that collects the task
\* hands the consumer of the pipeline the data-format error of the Segmenter,
\* no sentence is made of the line, and no sentence is emitted after the error.
SegmentationFailure ==
    /\ [][\A i \in Insts :
             (Annotating(i) /\ Rejected(i) /\ sentences'[i] # sentences[i]) =>
                 /\ out'[i] = Append(out[i], Err("tokenize"))
                 /\ sentences'[i].made = sentences[i].made
                 /\ sentences'[i].queue = << >>
                 /\ chunks'[i] = chunks[i]
                 /\ annotations'[i] = annotations[i] /\ metadata'[i] = metadata[i]]_vars
    /\ [](\A i \in Insts :
             Annotating(i) =>
                 \A k, m \in DOMAIN out[i] :
                     (out[i][k] = Err("tokenize") /\ k < m) => out[i][m] = Panic)

\* a chunk was emitted, then the segmenter rejected a line while a sentence
\* waited in the accumulator: the consumer has the chunk and the error
SegmentationFailureWitness ==
    \E i \in Insts :
        /\ Annotating(i)
        /\ Len(out[i]) = 2 /\ out[i][1].tag = "Ok" /\ out[i][2] = Err("tokenize")
        /\ chunks[i].buf # << >>

-----------------------------------------------------------------------------
(* Pull-driven stages *)

\* a step of a worker: of a spawned task or of a thread of the rayon pool
WorkerStep(i) ==
    \/ SegDone(i)
    \/ AnnStart(i)
    \/ \E k \in 1..MaxRuns : RunClaim(i, k) \/ RunTag(i, k)
    \/ \E k \in 1..MaxRuns, ok \in BOOLEAN : RunFinish(i, k, ok)
    \/ AnnDone(i)
    \/ MetaDone(i)

\* instance i takes a line or an item from an upstream
Reads(i) == lines'[i] # lines[i] \/ iter'[i] # iter[i]

Consumes(i) ==
    \/ sentences'[i].queue # sentences[i].queue
    \/ sentences'[i].made # sentences[i].made
    \/ chunks'[i] # chunks[i]
    \/ annotations'[i].state # annotations[i].state
    \/ metadata'[i].state # metadata[i].state
    \/ out'[i] # out[i]

\* a stage of instance i gives a task to spawn()
Submits(i) ==
    \/ sentences'[i].task.status = "running" /\ sentences[i].task.status # "running"
    \/ annotations'[i].task.status = "spawned" /\ annotations[i].task.status # "spawned"
    \/ metadata'[i].task.status = "running" /\ metadata[i].task.status # "running"

\* C19: lines and items are taken from an upstream, and tasks are given to the
\* worker pool, only in a poll by the consumer: no step of a worker reads a
\* line, moves an item between stages or to the consumer, or submits a task,
\* so with the consumer not polling only the tasks in flight go on.
PullDriven ==
    [][\A i \in Insts :
          (Reads(i) \/ Consumes(i) \/ Submits(i)) => \A j \in Insts : ~WorkerStep(j)]_vars

\* a finished annotation task waits for the next poll, with a sentence queued
\* in the segmenter and the body not read to its end
PullDrivenWitness ==
    \E i \in Insts :
        /\ Annotating(i)
        /\ annotations[i].task.status = "done"
        /\ sentences[i].queue # << >>
        /\ ~lines[i].eof /\ lines[i].nread < MaxLines

-----------------------------------------------------------------------------
(* The whitespace tokenizer *)

IsWs(text, p) == text[p] \in AsciiWhitespace

\* the lines of a text: one per line feed, and one more for what follows the last
LineCount(text) ==
    Cardinality({p \in DOMAIN text : text[p] = "LF"})
        + (IF text # << >> /\ text[Len(text)] # "LF" THEN 1 ELSE 0)

LineOf(text, p) == 1 + Cardinality({q \in 1..(p - 1) : text[q] = "LF"})

\* the positions where a maximal run of non-whitespace characters starts, and
\* where the run that starts at p ends
RunStarts(text) == {p \in DOMAIN text : ~IsWs(text, p) /\ (p = 1 \/ IsWs(text, p - 1))}

RunEnd(text, p) ==
    CHOOSE e \in p..Len(text) :
        /\ \A q \in p..e : ~IsWs(text, q)
        /\ e = Len(text) \/ IsWs(text, e + 1)

\* C20: tokenize does not fail and gives one group per line of the text, a line
\* ending at "\n" or "\r\n"; the tokens of a group are the maximal runs of
\* non-ASCII-whitespace characters of its line, in order and character by
\* character.
WhitespaceGroups ==
    \A i \in Insts :
        (cfg[i].stack = "tokenize" /\ out[i] # << >>) =>
            LET text == hist[i].input[1]
                res == out[i][1]
                all == Flatten(res.tokens)
                rank(p) == Cardinality({q \in RunStarts(text) : q <= p})
            IN  /\ res.some
                /\ Len(res.tokens) = LineCount(text)
                /\ Len(all) = Cardinality(RunStarts(text))
                /\ \A p \in RunStarts(text) : all[rank(p)] = SubSeq(text, p, RunEnd(text, p))
                /\ \A k \in DOMAIN res.tokens :
                      Len(res.tokens[k]) =
                          Cardinality({p \in RunStarts(text) : LineOf(text, p) = k})

\* "a\r\nb" gives the group of a and the group of b
WhitespaceGroupsWitness ==
    \E i \in Insts :
        /\ cfg[i].stack = "tokenize"
        /\ hist[i].input = <<(<<"a", "CR", "LF", "b">>)>>
        /\ out[i] = <<[some |-> TRUE, tokens |-> << <<(<<"a">>)>>, <<(<<"b">>)>> >>]>>

-----------------------------------------------------------------------------
(* Properties of the segmenter polled alone *)

Draining(i) == cfg[i].stack = "sentences"

\* the sentences the consumer has received
SentencesOut(i) == [k \in DOMAIN ChunksOf(out[i]) |-> ChunksOf(out[i])[k].val]

\* this poll gives the consumer the end of the stream or a read error
UpstreamEnds(i) ==
    \/ out'[i] = Append(out[i], None)
    \/ out'[i] = Append(out[i], Err("io"))

\* C21: the sentences of a line come out one per poll in the segmenter's
\* order, and the Segmenter asks for the next line only with its queue empty
\* and no segmentation task pending: the sentences emitted and queued are
\* always the first ones made of the lines read, and a poll that yields a read
\* error or the end of the stream finds nothing queued, with every sentence of
\* the lines read before already emitted.
SegmenterDraining ==
    /\ [](\A i \in Insts :
             Draining(i) =>
                 LET all == SentencesOf(hist[i].read, 0)
                     held == SentencesOut(i) \o sentences[i].queue
                 IN  /\ Len(held) = sentences[i].made
                     /\ IsPrefix(held, all))
    /\ [][\A i \in Insts :
             (Draining(i) /\ UpstreamEnds(i)) =>
                 /\ sentences[i].queue = << >>
                 /\ sentences'[i].queue = << >>
                 /\ SentencesOut(i) = SentencesOf(hist[i].read, 0)
                 /\ SentencesOut(i) = SentencesOf(hist'[i].read, 0)]_vars
    /\ [][\A i \in Insts :
             (Draining(i) /\ lines'[i] # lines[i]) =>
                 /\ sentences[i].queue = << >>
                 /\ sentences[i].task.status # "running"
                 /\ sentences[i].task.status = "done" =>
                       /\ sentences[i].task.result.some
                       /\ sentences[i].task.result.tokens = << >>
                 /\ Len(out'[i]) <= Len(out[i]) + 1]_vars

\* a line of two sentences was drained in two polls, then the stream ended
SegmenterDrainingWitness ==
    \E i \in Insts :
        /\ Draining(i)
        /\ Len(hist[i].read) = 1
        /\ hist[i].read[1].kind = "text" /\ Len(hist[i].read[1].lens) = 2
        /\ Len(out[i]) = 3
        /\ out[i][1].tag = "Ok" /\ out[i][2].tag = "Ok" /\ out[i][3] = None
        /\ out[i][1].val.id = 1 /\ out[i][2].val.id = 2

\* the state changes of the Segmenter
SegmenterEdges ==
    {<<"Lines", "Tokenize">>, <<"Tokenize", "Sentences">>, <<"Sentences", "Lines">>}

\* the answers the next poll of instance i can get
PollsOf(i) ==
    {r \in {TopPoll(Bundle(i, feed)) : feed \in FeedsFor(i)} : r.st.feed = << >>}

\* the states the segmenter goes through in the poll answered with r
Walk(i, r) == <<sentences[i].state>> \o r.st.path

\* C22: the Segmenter changes state only from Lines to Tokenize (a non-blank
\* line was read and a task submitted), from Tokenize to Sentences (the task
\* succeeded) and from Sentences to Lines (the queue is empty); it signals the
\* end of the stream only in Lines with the line stream exhausted and the
\* queue empty, and a line of zero sentences leads back to Lines with nothing
\* emitted for it.
SegmenterStates ==
    \A i \in Insts :
        Draining(i) =>
            /\ sentences[i].state \in {"Lines", "Tokenize", "Sentences"}
            /\ sentences[i].state = "Lines" =>
                  sentences[i].queue = << >> /\ sentences[i].task = NoTask
            /\ sentences[i].state = "Tokenize" =>
                  sentences[i].queue = << >> /\ sentences[i].task # NoTask
            /\ sentences[i].state = "Sentences" => sentences[i].task = NoTask
            /\ CanPoll(i) =>
                  \A r \in PollsOf(i) :
                      LET walk == Walk(i, r)
                          path == r.st.path
                          t == sentences[i].task
                      IN  /\ \A k \in 1..(Len(walk) - 1) :
                                <<walk[k], walk[k + 1]>> \in SegmenterEdges
                          /\ walk[Len(walk)] = r.st.sentences.state
                          /\ \A k \in DOMAIN path :
                                /\ path[k] = "Tokenize" =>
                                      /\ k = Len(path)
                                      /\ r.st.sentences.task.status = "running"
                                      /\ ~IsBlank(r.st.sentences.task.line)
                                      /\ r.st.lines.nread > lines[i].nread
                                /\ path[k] = "Sentences" =>
                                      k = 1 /\ t.status = "done" /\ t.result.some
                                /\ path[k] = "Lines" =>
                                      \/ k = 1 /\ sentences[i].queue = << >>
                                      \/ k = 2 /\ t.result.tokens = << >>
                          /\ r.res = None =>
                                /\ r.st.sentences.state = "Lines"
                                /\ r.st.lines.eof
                                /\ r.st.sentences.queue = << >>
                          /\ (t.status = "done" /\ t.result.some /\ t.result.tokens = << >>) =>
                                /\ SubSeq(path, 1, 2) = <<"Sentences", "Lines">>
                                /\ r.res.tag # "Ok"

\* the task of a line of zero sentences is done: the next poll goes through
\* Sentences back to Lines, and on to Tokenize with the line it reads
SegmenterStatesWitness ==
    \E i \in Insts :
        /\ Draining(i)
        /\ sentences[i].state = "Tokenize"
        /\ sentences[i].task.status = "done"
        /\ sentences[i].task.result.some /\ sentences[i].task.result.tokens = << >>
        /\ \E r \in PollsOf(i) : r.st.path = <<"Sentences", "Lines", "Tokenize">>

-----------------------------------------------------------------------------
(* Properties of the runs of a chunk *)

\* the tagger invocations made for the chunk of task t
CallsOf(i, t) == SelectSeq(hist[i].calls, LAMBDA c : c.chunk = Ids(t.chunk))

\* C23: the m retained sentences of a chunk are split, in ascending order of
\* piece count, into ceil(m/B) runs of B sentences, the last one of what is
\* left; every retained sentence is in exactly one run, no piece count of a run
\* exceeds one of the next run, and a chunk that was annotated had each of its
\* retained sentences tagged in exactly one tagger invocation.
RunPartition ==
    \A i \in Insts :
        Annotating(i) =>
            LET t == annotations[i].task
                B == cfg[i].batch_size
            IN  /\ t.status = "running" =>
                      LET m == Len(t.swp)
                          n == Len(t.runs)
                      IN  /\ n = Ceil(m, B)
                          /\ \A k \in DOMAIN t.runs :
                                Cardinality(t.runs[k].members) =
                                    IF k < n THEN B ELSE m - (n - 1) * B
                          /\ \A j \in DOMAIN t.swp :
                                Cardinality({k \in DOMAIN t.runs : j \in t.runs[k].members}) = 1
                          /\ \A k \in DOMAIN t.runs : t.runs[k].members \subseteq DOMAIN t.swp
                          /\ \A k \in 1..(n - 1) :
                                \A a \in t.runs[k].members, b \in t.runs[k + 1].members :
                                    t.swp[a].pieces <= t.swp[b].pieces
                /\ (t.status = "done" /\ t.result.ok) =>
                      \A j \in DOMAIN t.result.val :
                          /\ t.result.val[j].sentence.tagged
                          /\ Cardinality({c \in DOMAIN CallsOf(i, t) :
                                 t.result.val[j].sentence.id \in CallsOf(i, t)[c].ids}) = 1

\* four retained sentences in runs of three: a run of three and a run of one,
\* the first sentence of the chunk being longer than the second
RunPartitionWitness ==
    \E i \in Insts :
        /\ Annotating(i)
        /\ cfg[i].batch_size = 3
        /\ annotations[i].task.status = "running"
        /\ Len(annotations[i].task.swp) = 4
        /\ Len(annotations[i].task.runs) = 2
        /\ annotations[i].task.swp[1].pieces > annotations[i].task.swp[2].pieces
        /\ Cardinality(annotations[i].task.runs[2].members) = 1

-----------------------------------------------------------------------------
(* Properties of the suspension points *)

\* what a poll that ended in the state st and returned Pending is waiting for
LinePending(st) ==
    /\ st.metadata.state = "Sentences"
    /\ st.annotations.state = "Sentences"
    /\ st.sentences.state = "Lines"
    /\ ~st.lines.eof

SegPending(st) ==
    /\ st.metadata.state = "Sentences"
    /\ st.annotations.state = "Sentences"
    /\ st.sentences.task.status = "running"

AnnPending(st) ==
    /\ st.metadata.state = "Sentences"
    /\ st.annotations.task.status \in {"spawned", "running"}

MetaPending(st) == st.metadata.task.status = "running"

Count(b) == IF b THEN 1 ELSE 0

\* the stamper hands on what its upstream yields, an error or the end as it
\* is, and besides only the result of a stamping task
StamperTransparent(i) ==
    CanPoll(i) =>
        \A r \in PollsOf(i) :
            /\ r.res.tag \in {"Err", "None", "Panic"} =>
                  /\ metadata[i].state = "Sentences"
                  /\ \E feed \in FeedsFor(i) : AnnotationsPoll(Bundle(i, feed)) = r
            /\ r.res.tag = "Ok" =>
                  /\ metadata[i].task.status = "done"
                  /\ r.res.val = metadata[i].task.result

-----------------------------------------------------------------------------
(* Properties of the error paths *)

\* in this step the line stream of instance i yields a read error
ReadError(i) ==
    /\ Len(hist'[i].read) > Len(hist[i].read)
    /\ hist'[i].read[Len(hist'[i].read)].kind = "ioerr"

\* C25: a read error of the line stream goes, in the poll that reads it,
\* through the Segmenter, the Normalizer, the Accumulator, the BatchAnnotator
\* and the Stamper to the byte reader, which returns it: the line stream is
\* not polled again, no worker task is submitted, and no byte is handed out.
UpstreamErrorPassThrough ==
    [][\A i \in Insts :
          (Served(i) /\ ReadError(i)) =>
              /\ out'[i] = Append(out[i], Err("io"))
              /\ reader'[i].state = "failed" /\ reader'[i].err = Err("io")
              /\ reader'[i].body = reader[i].body
              /\ lines'[i].nread = lines[i].nread + Len(hist'[i].read) - Len(hist[i].read)
              /\ \A k \in (Len(hist[i].read) + 1)..(Len(hist'[i].read) - 1) :
                    IsBlank(hist'[i].read[k])
              /\ ~Submits(i)
              /\ Outstanding(i)' <= Outstanding(i)]_vars

\* a read error after a sentence that the accumulator still holds: the body
\* reader was given the error
UpstreamErrorPassThroughWitness ==
    \E i \in Insts :
        /\ Served(i)
        /\ reader[i].state = "failed" /\ reader[i].err = Err("io")
        /\ out[i] # << >> /\ out[i][Len(out[i])] = Err("io")
        /\ chunks[i].buf # << >>
        /\ hist[i].read[Len(hist[i].read)].kind = "ioerr"

\* the units of the serialized sentences of chunk
BlocksOf(chunk) == {Block(chunk[k].id) : k \in DOMAIN chunk}

\* C26: when write_sentence fails for a sentence of a chunk, poll_read returns
\* a data-format error and hands out no byte of the chunk, not even of the
\* sentences written before the failing one: the bytes handed out stay what
\* they were, nothing is kept for a later read, and nothing is read afterwards.
SerializationFailure ==
    /\ [][\A i \in Insts :
             (Served(i) /\ reader'[i].err.tag = "Err" /\ reader'[i].err.kind = "serialize"
                 /\ reader[i].err = None) =>
                 /\ out'[i] # out[i] /\ out'[i][Len(out'[i])].tag = "Ok"
                 /\ reader'[i].err.sentence \in DOMAIN out'[i][Len(out'[i])].val
                 /\ reader'[i].state = "failed"
                 /\ reader'[i].body = reader[i].body
                 /\ reader'[i].parse_buf = << >>
                 /\ Range(reader'[i].body) \cap BlocksOf(out'[i][Len(out'[i])].val) = {}]_vars
    /\ [][\A i \in Insts :
             (Served(i) /\ reader[i].state = "failed") => reader'[i] = reader[i]]_vars

\* the second sentence of the second chunk failed to serialize: the response
\* holds the first chunk and nothing of the second
SerializationFailureWitness ==
    \E i \in Insts :
        /\ Served(i)
        /\ reader[i].err = SerializeErr(2)
        /\ reader[i].body = <<Block(1), Nl, Block(2)>>
        /\ Len(ChunksOf(out[i])) = 2
        /\ Ids(ChunksOf(out[i])[2].val) = {3, 4}

-----------------------------------------------------------------------------
(* Properties of the configuration *)

\* C27: a pipeline made from a configuration and serving requests has
\* batch_size >= 1 and read_ahead >= 1, so that the capacity of its accumulator
\* and the size of its runs are at least 1: an entry with batch_size = 0 or
\* read_ahead = 0 gives no served pipeline.
PositiveSizes ==
    \A i \in Insts :
        (Annotating(i) /\ out[i] # << >>) =>
            /\ cfg[i].batch_size >= 1
            /\ cfg[i].read_ahead >= 1
            /\ ChunkLen(cfg[i]) >= 1

-----------------------------------------------------------------------------
(* Properties of the end of the response *)

\* C28: poll_read, given a buffer of at least one byte, returns 0 bytes only
\* when the stream of chunks has ended: the response is ended only after the
\* pipeline yielded the end of its stream.
ZeroOnlyAtEnd ==
    \A i \in Insts :
        (Served(i) /\ reader[i].state = "eof") =>
            /\ out[i] # << >>
            /\ out[i][Len(out[i])] = None

-----------------------------------------------------------------------------
(* Properties of the buffer of the accumulator *)

\* C29: the buffer of a TryChunks of capacity C >= 1 never holds more than C
\* items; when a poll returns, with Pending, a chunk, an error or the end, it
\* holds at most C - 1, and none right after a chunk was emitted.
BufferBounded ==
    \A i \in Insts :
        cfg[i].stack = "chunks" =>
            LET C == cfg[i].chunk_len
            IN  /\ Len(chunks[i].buf) <= C - 1
                /\ CanPoll(i) =>
                      \A r \in PollsOf(i) :
                          /\ r.st.peak <= C
                          /\ Len(r.st.chunks.buf) <= C - 1
                          /\ r.res.tag \in {"Ok", "None"} => r.st.chunks.buf = << >>
                          /\ r.res.tag = "Ok" => r.st.peak = Len(r.res.val)

\* capacity 3: a full chunk was emitted, and the poll after it ran into an
\* error with two items in the buffer
BufferBoundedWitness ==
    \E i \in Insts :
        /\ cfg[i].stack = "chunks" /\ cfg[i].chunk_len = 3
        /\ Len(chunks[i].buf) = 2
        /\ Len(out[i]) = 2
        /\ out[i][1].tag = "Ok" /\ Len(out[i][1].val) = 3
        /\ out[i][2].tag = "Err"

-----------------------------------------------------------------------------
(* Properties of a stage after the failure of its task *)

LastOut(i) == out[i][Len(out[i])]

\* C30: after the Segmenter or the BatchAnnotator yielded the error of a
\* failed task, the stage awaits input again and holds no finished task, so
\* that no poll is made of a task that has completed.
TaskErrorResets ==
    \A i \in Insts :
        (Annotating(i) /\ out[i] # << >>) =>
            /\ LastOut(i) = Err("tokenize") =>
                  sentences[i].state = "Lines" /\ sentences[i].task = NoTask
            /\ LastOut(i) = Err("annotate") =>
                  annotations[i].state = "Sentences" /\ annotations[i].task = NoTask
            /\ LastOut(i) # Panic

-----------------------------------------------------------------------------
(* Termination: one request to an annotate pipeline whose consumer keeps
   polling, whose body arrives, and whose submitted tasks are run by the
   worker pools *)

LiveShapes == {<<1, 1>>, <<2, 1>>, <<1, 2>>}

LiveConfigs ==
    {[stack |-> "annotate", name |-> "nl", batch_size |-> sh[1], read_ahead |-> sh[2],
      max_len |-> ml, reader |-> FALSE] : sh \in LiveShapes, ml \in MaxLens}

InitLive ==
    /\ threads \in ThreadChoices
    /\ cfg \in [{1} -> LiveConfigs]
    /\ iter = [i \in {1} |-> << >>]
    /\ Fresh({1})

\* a poll by the consumer can do something: it is answered, or a stage takes a
\* line, a result or an item (ENABLED <<Poll(i)>>_vars as a state predicate)
PollReady(i) ==
    /\ CanPoll(i)
    /\ \E r \in PollsOf(i) :
          \/ r.res.tag # "Pending"
          \/ r.st.lines # lines[i] \/ r.st.sentences # sentences[i]
          \/ r.st.chunks # chunks[i] \/ r.st.annotations # annotations[i]
          \/ r.st.metadata # metadata[i]

\* the executor polls a stream that was woken: weak fairness of Poll(i), with
\* its enabling condition written as PollReady(i)
KeepsPolling(i) == []<>(~PollReady(i)) \/ []<><<Poll(i)>>_vars

\* a spawned task, and a run of a batch that can go on, does
Fairness ==
    /\ KeepsPolling(1)
    /\ WF_vars(SegDone(1))
    /\ WF_vars(AnnStart(1))
    /\ \A k \in 1..MaxRuns : WF_vars(RunClaim(1, k))
    /\ \A k \in 1..MaxRuns : WF_vars(RunTag(1, k))
    /\ \A k \in 1..MaxRuns : WF_vars(\E ok \in BOOLEAN : RunFinish(1, k, ok))
    /\ WF_vars(AnnDone(1))
    /\ WF_vars(MetaDone(1))

SpecLive == InitLive /\ [][Next]_vars /\ Fairness

\* the consumer was given the end of the stream or an error
Terminated(i) ==
    \E k \in DOMAIN out[i] : out[i][k].tag \in {"None", "Err"}

\* a task of the request is with a worker pool and not finished
AtWorker(i) ==
    \/ sentences[i].task.status = "running"
    \/ annotations[i].task.status \in {"spawned", "running"}
    \/ metadata[i].task.status = "running"

\* C31: with a body of finitely many lines, tasks that complete and a consumer
\* that keeps polling, the annotate pipeline yields the end of the stream or an
\* error; until then either a poll can go on (it takes a line, a result or an
\* item) or a task of the request is running on a worker pool.
Termination ==
    /\ <>Terminated(1)
    /\ [](~Terminated(1) => PollReady(1) \/ AtWorker(1))

\* three lines were read, one sentence came of them, and the stream ended
TerminationWitness ==
    \E i \in Insts :
        /\ Annotating(i)
        /\ lines[i].nread = 3 /\ lines[i].eof
        /\ sentences[i].made = 1
        /\ Len(out[i]) = 2
        /\ out[i][1].tag = "Ok" /\ Len(out[i][1].val) = 1
        /\ out[i][2] = None

-----------------------------------------------------------------------------
(* Properties of the bytes of the response *)

\* the chunks in the order they were taken, each serialized with its separator
RECURSIVE SerializeAll(_, _)
SerializeAll(chs, first) ==
    IF chs = << >> THEN << >>
    ELSE WriteChunk(first, Head(chs).val) \o SerializeAll(Tail(chs), FALSE)

\* the chunks the reader took from the pipeline and serialized
WrittenChunks(i) ==
    LET chs == ChunksOf(out[i])
    IN  IF reader[i].err.tag = "Err" /\ reader[i].err.kind = "serialize"
        THEN SubSeq(chs, 1, Len(chs) - 1)
        ELSE chs

\* C32: the bytes handed out by the calls of poll_read so far, followed by
\* those kept for the next call, are the serialized chunks with their
\* separators in the order of the chunks; a call with a buffer of len >= 1
\* bytes hands out the first min(len, pending) of the pending bytes and returns
\* that number; the pipeline is polled only when no byte is pending.
ByteStreamFidelity ==
    /\ [](\A i \in Insts :
            Served(i) =>
                reader[i].body \o reader[i].parse_buf = SerializeAll(WrittenChunks(i), TRUE))
    /\ [][\A i \in Insts :
            (Served(i) /\ reader'[i] # reader[i] /\ reader'[i].state # "failed") =>
                LET total == reader'[i].body \o reader'[i].parse_buf
                    pending == SubSeq(total, Len(reader[i].body) + 1, Len(total))
                IN  IF out'[i] # out[i] /\ out'[i][Len(out'[i])] = None
                    THEN /\ reader'[i].body = reader[i].body
                         /\ reader[i].parse_buf = << >> /\ reader'[i].parse_buf = << >>
                    ELSE /\ reader'[i].len >= 1
                         /\ reader'[i].ret = Min(reader'[i].len, Len(pending))
                         /\ reader'[i].body =
                                reader[i].body \o SubSeq(pending, 1, reader'[i].ret)
                         /\ reader[i].parse_buf # << >> => pending = reader[i].parse_buf]_vars
    /\ [][\A i \in Insts :
            (Served(i) /\ (Reads(i) \/ Consumes(i) \/ Submits(i))) =>
                reader[i].parse_buf = << >>]_vars

\* the second chunk, a separator and a block, is handed out in two calls with
\* a buffer of one byte: the block is kept for the next call
ByteStreamFidelityWitness ==
    \E i \in Insts :
        /\ Served(i)
        /\ reader[i].body = <<Block(1), Nl>>
        /\ reader[i].parse_buf = <<Block(2)>>
        /\ reader[i].len = 1 /\ reader[i].ret = 1
        /\ Len(ChunksOf(out[i])) = 2

-----------------------------------------------------------------------------
(* Properties of the stamper taken alone *)

Stamping(i) == cfg[i].stack = "metadata"

\* sentence t is sentence s with one provenance comment after its comments
StampedFrom(s, t, name) ==
    /\ t.id = s.id /\ t.tokens = s.tokens /\ t.npieces = s.npieces /\ t.tagged = s.tagged
    /\ Len(t.comments) = Len(s.comments) + 1
    /\ SubSeq(t.comments, 1, Len(s.comments)) = s.comments
    /\ t.comments[Len(t.comments)] = PipelineComment(name)

\* the stamper has a chunk with its task and has not yielded it
Holding(i) == Count(metadata[i].task.status \in {"running", "done"})

\* C33: the results the stamper has yielded are, position by position, those
\* it has taken from its upstream, but for the chunk its task holds: an error
\* as it came, and for a chunk one chunk of as many sentences in the same
\* order, each with the tokens and the comments it came with and one provenance
\* comment after them; then the end of the stream.
StamperFrame ==
    \A i \in Insts :
        Stamping(i) =>
            LET input == hist[i].input
                taken == Len(input) - Len(iter[i])
                results == SelectSeq(out[i], LAMBDA e : e.tag # "None")
            IN  /\ Len(results) = taken - Holding(i)
                /\ \A k \in DOMAIN out[i] :
                      IF k > Len(input)
                      THEN k = Len(input) + 1 /\ out[i][k] = None
                      ELSE IF input[k].tag = "Err"
                      THEN out[i][k] = input[k]
                      ELSE /\ out[i][k].tag = "Ok"
                           /\ Len(out[i][k].val) = Len(input[k].val)
                           /\ \A n \in DOMAIN input[k].val :
                                 StampedFrom(input[k].val[n], out[i][k].val[n], cfg[i].name)

\* a chunk of two sentences, one of which came with a comment, an error and an
\* empty chunk have passed the stamper, and the stream has ended
StamperFrameWitness ==
    \E i \in Insts :
        /\ Stamping(i)
        /\ Len(out[i]) = 4 /\ out[i][4] = None
        /\ out[i][1].tag = "Ok" /\ Len(out[i][1].val) = 2
        /\ Len(out[i][1].val[1].comments) = 2 /\ Len(out[i][1].val[2].comments) = 1
        /\ out[i][2].tag = "Err"
        /\ out[i][3] = Ok(<< >>)

-----------------------------------------------------------------------------
(* Properties of Config::load *)

Loading(i) == cfg[i].stack = "load"

NamesOf(section) == {section[k].name : k \in DOMAIN section}

\* entry e names an annotator or a tokenizer that the configuration has not
UnknownName(c, e) ==
    e.annotator \notin NamesOf(c.annotators) \/ e.tokenizer \notin NamesOf(c.tokenizers)

\* a tokenizer or an annotator of the configuration fails to load
FailsToLoad(c) ==
    \/ \E k \in DOMAIN c.annotators : ~c.annotators[k].loads
    \/ \E k \in DOMAIN c.tokenizers : ~c.tokenizers[k].loads

\* the load of configuration c returned r: an error and no pipeline when an
\* entry names an annotator or a tokenizer the configuration has not, or when
\* one of them fails to load; otherwise one pipeline for every entry, in the
\* order of the entries, each with the name and the sizes of its entry, the
\* tokenizer its entry names and an annotator handle on the loaded annotator
\* its entry names
AllOrNothing(c, r) ==
    /\ r.ok <=> (~FailsToLoad(c) /\ \A k \in DOMAIN c.pipelines :
                                      ~UnknownName(c, c.pipelines[k]))
    /\ ~r.ok => DOMAIN r = {"ok"}
    /\ r.ok =>
          /\ Len(r.pipelines) = Len(c.pipelines)
          /\ \A k \in DOMAIN c.pipelines :
                LET e == c.pipelines[k]
                    p == r.pipelines[k]
                IN  /\ p.name = e.name
                    /\ p.batch_size = e.batch_size /\ p.read_ahead = e.read_ahead
                    /\ p.annotator.value.value = e.annotator
                    /\ p.tokenizer.value = e.tokenizer

\* two pipelines whose entries name the same annotator hold the same handle
SharedHandles(c, r) ==
    r.ok =>
        \A j, k \in DOMAIN c.pipelines :
            c.pipelines[j].annotator = c.pipelines[k].annotator =>
                r.pipelines[j].annotator = r.pipelines[k].annotator

====
